---- MODULE Spec2Model ----
(***************************************************************************)
(* Adaptive learning-gap and study-plan engine of the EDU_AI backend:      *)
(*   services/ai_generator.py  plan synthesizer (delegation + fallback)    *)
(*   routers/study_plans.py    plan persistence and task lifecycle tracker *)
(*   routers/assessments.py    scoring engine                              *)
(*                                                                         *)
(* Conventions.  A Python str is a sequence of text tokens, so that        *)
(* f-strings are concatenations (\o) and str.lower() maps over tokens.     *)
(* An optional value (a dict key that may be missing, a nullable column)   *)
(* is the empty sequence None or the one-element sequence Some(v).         *)
(* A date is its day ordinal; date.isoformat() yields the tagged string    *)
(* <<"iso", d>>.  daily_hours (a float) is held in hundredths of an hour.  *)
(* A call that raises returns a record whose field raised names the        *)
(* exception.                                                              *)
(***************************************************************************)
EXTENDS Integers, Sequences, FiniteSets, TLC

VARIABLES
    call,        \* synthesizer: the latest call [fn, args, env, done, result]
    prev,        \* synthesizer: how the call before the latest relates to it
    plans,       \* table study_plans, row id = index
    tasks,       \* table study_tasks, row id = index
    last,        \* tracker: the latest request served, or its refusal
    assessment,  \* table assessments, the row of the one assessment
    responses,   \* table question_responses
    submitted,   \* scoring: the latest submit_assessment request and reply
    sessions     \* tracker: the update_task requests in flight, one per database session

vars == <<call, prev, plans, tasks, last, assessment, responses, submitted, sessions>>

synthVars == <<call, prev>>
trackerVars == <<plans, tasks, last, sessions>>
scoringVars == <<assessment, responses, submitted>>

(***************************************************************************)
(* Bounds of the model.                                                    *)
(***************************************************************************)
MaxTopics == 2      \* longest topics list of a request
MaxDay == 2         \* dates range over day ordinals 0..MaxDay
MaxProvided == 2    \* longest task list the collaborator returns
MaxTasks == 2       \* rows of study_tasks
MaxAnswers == 3     \* longest answers list of a submission
MaxHorizon == 12    \* last day of the longest range given to the fallback

(***************************************************************************)
(* Values.                                                                 *)
(***************************************************************************)
None == <<>>
Some(v) == <<v>>
IsSome(o) == Len(o) = 1
Get(o) == o[1]
GetOr(o, d) == IF IsSome(o) THEN o[1] ELSE d

RECURSIVE SeqsUpTo(_, _)
SeqsUpTo(S, n) ==
    IF n = 0 THEN {<<>>}
    ELSE LET shorter == SeqsUpTo(S, n - 1)
         IN  shorter \cup {Append(s, e) : s \in {t \in shorter : Len(t) = n - 1}, e \in S}

\* str.lower() on one token, and on a str
LowerToken(a) ==
    CASE a = "Algebra" -> "algebra"
      [] a = "ALGEBRA" -> "algebra"
      [] a = "Geometry" -> "geometry"
      [] a = "Subject ID " -> "subject id "
      [] OTHER -> a
Lower(s) == [i \in DOMAIN s |-> LowerToken(s[i])]

\* date.isoformat() and date.fromisoformat(); the latter raises ValueError
IsoFormat(d) == <<"iso", d>>
IsIsoString(s) == s[1] = "iso"
FromIsoFormat(s) == s[2]

\* int(x) of the rational num/den (den > 0): truncation toward zero
IntTrunc(num, den) == IF num >= 0 THEN num \div den ELSE -((-num) \div den)

\* int(daily_hours * 60), daily_hours in hundredths of an hour
DailyMinutes(daily_hours) == IntTrunc(daily_hours * 60, 100)

\* (end_date - start_date).days + 1
TotalDays(start_date, end_date) == end_date - start_date + 1

\* range(n)
Range(n) == 0 .. (n - 1)

(***************************************************************************)
(* Plan synthesizer, fallback path: generate_algorithmic_fallback.         *)
(***************************************************************************)
subtopic_templates == <<
    [name |-> "Foundations & Fundamentals",
     desc |-> "Grasp the core logic and terminology. Focus on 'Why' it works."],
    [name |-> "Step-by-Step Implementation",
     desc |-> "Follow a tutorial to build your first working example."],
    [name |-> "Pattern Recognition",
     desc |-> "Solve 3-5 variants of standard problems to build instinct."],
    [name |-> "Debugging & Troubleshooting",
     desc |-> "Deliberately break your code/solution and fix it."],
    [name |-> "Deep Architectural Review",
     desc |-> "Analyze the theory and best practices used in the industry."],
    [name |-> "Consolidation Challenge",
     desc |-> "Synthesize everything learned into a final review session."] >>

\* a call that raised: nothing is returned
Raised(e) ==
    [raised |-> e, topics |-> <<>>, daily_hours |-> 0, tasks |-> <<>>, metadata |-> <<>>]

Returned(topics, daily_hours, tasks_, metadata) ==
    [raised |-> "", topics |-> topics, daily_hours |-> daily_hours,
     tasks |-> tasks_, metadata |-> metadata]

\* the task appended by one iteration of the loop
FallbackTask(i, current_topic, sub_info, start_date, daily_minutes) ==
    [topic |-> current_topic \o <<": ", sub_info.name>>,
     subtopic |-> Some(<<sub_info.name>>),
     description |-> Some(<<sub_info.desc, " This path ensures you master ">>
                          \o current_topic \o <<" from first principles.">>),
     task_type |-> Some(IF i % 2 = 0 THEN "study" ELSE "practice"),
     scheduled_date |-> IsoFormat(start_date + i),
     duration_minutes |-> daily_minutes,
     priority |-> 2]

\* (variant) the counters kept at module level: a call starts where the call
\* before it stopped
FallbackCountersStale == IF call.fn = "none" THEN 0 ELSE Len(call.result.tasks)

\* the counters the loop starts from: topic_idx = 0, sub_idx = 0
FallbackCounters == 0

\* (variant) the topic advances with every day
RECURSIVE FallbackLoopDaily(_, _, _, _, _, _, _, _)
FallbackLoopDaily(i, topic_idx, sub_idx, acc, topics, start_date, total_days, daily_minutes) ==
    IF i >= total_days THEN [raised |-> "", tasks |-> acc]
    ELSE IF Len(topics) = 0 THEN [raised |-> "ZeroDivisionError", tasks |-> acc]
    ELSE FallbackLoopDaily(i + 1, topic_idx + 1, sub_idx + 1,
             Append(acc, FallbackTask(i, topics[(topic_idx % Len(topics)) + 1],
                                      subtopic_templates[(sub_idx % Len(subtopic_templates)) + 1],
                                      start_date, daily_minutes)),
             topics, start_date, total_days, daily_minutes)

\* the loop `for i in range(total_days)`, from iteration i on; a modulo by
\* len(topics) = 0 raises ZeroDivisionError out of the function
RECURSIVE FallbackLoop(_, _, _, _, _, _, _, _)
FallbackLoop(i, topic_idx, sub_idx, acc, topics, start_date, total_days, daily_minutes) ==
    IF i >= total_days THEN [raised |-> "", tasks |-> acc]
    ELSE IF Len(topics) = 0 THEN [raised |-> "ZeroDivisionError", tasks |-> acc]
    ELSE LET current_topic == topics[(topic_idx % Len(topics)) + 1]
             sub_info == subtopic_templates[(sub_idx % Len(subtopic_templates)) + 1]
             sub_next == sub_idx + 1
             topic_next == IF sub_next % Len(subtopic_templates) = 0
                           THEN topic_idx + 1 ELSE topic_idx
         IN  FallbackLoop(i + 1, topic_next, sub_next,
                          Append(acc, FallbackTask(i, current_topic, sub_info,
                                                   start_date, daily_minutes)),
                          topics, start_date, total_days, daily_minutes)

generate_algorithmic_fallback(topics, start_date, end_date, daily_hours) ==
    LET total_days == TotalDays(start_date, end_date)
        daily_minutes == DailyMinutes(daily_hours)
        loop == FallbackLoop(0, FallbackCounters, FallbackCounters, <<>>, topics,
                             start_date, total_days, daily_minutes)
    IN  IF loop.raised # "" THEN Raised(loop.raised)
        ELSE Returned(topics, daily_hours, loop.tasks,
                      <<"Master the foundations of ">>
                          \o (IF Len(topics) > 0 THEN topics[1] ELSE <<"the subject">>))

(***************************************************************************)
(* Plan synthesizer, delegation: generate_ai_study_plan.                   *)
(*                                                                         *)
(* The environment of a call is env = [gemini_key, response]: whether      *)
(* GEMINI_API_KEY is set, and what requests.post(...) does.  A response is *)
(*   [kind, status_code, fenced, tasks, metadata]                          *)
(* with kind one of                                                        *)
(*   "raise"            requests.post raises (timeout, connection error)   *)
(*   "body_not_json"    response.json() raises                             *)
(*   "no_candidates"    no "candidates" key, or an empty list              *)
(*   "candidate_shape"  candidates[0] lacks content/parts/text (KeyError)  *)
(*   "invalid_json"     the text is not JSON (json.JSONDecodeError)        *)
(*   "not_object"       the text is a JSON array (no .get: AttributeError) *)
(*   "no_tasks_key"     a JSON object without "tasks"                      *)
(*   "tasks_null"       a JSON object whose "tasks" is null (TypeError)    *)
(*   "plan"             a JSON object whose "tasks" is the list tasks      *)
(* and fenced telling whether the text is wrapped in ```json ... ```.      *)
(* An entry of tasks is [obj, topic, subtopic, description, pro_tip,       *)
(* duration_minutes, priority, task_type, scheduled_date]: obj is FALSE    *)
(* for a JSON value that is not an object, the others are optional keys.   *)
(***************************************************************************)
\* text.replace("```json", "").replace("```", "").strip()
StripFences(response) == [response EXCEPT !.fenced = FALSE]

\* json.loads(text_content): the exception it raises, "" when it parses
JsonLoads(response) ==
    IF response.fenced \/ response.kind = "invalid_json" THEN "JSONDecodeError" ELSE ""

\* (variant) the topic is kept as the collaborator gave it
DelegatedTaskNoRewrite(i, task, subject, topics, start_date, daily_hours) ==
    IF ~task.obj THEN [raised |-> "TypeError", task |-> None]
    ELSE IF IsSome(task.pro_tip) /\ ~IsSome(task.description)
         THEN [raised |-> "KeyError", task |-> None]
    ELSE IF ~IsSome(task.topic) THEN [raised |-> "KeyError", task |-> None]
    ELSE [raised |-> "",
          task |-> Some(
            [topic |-> Get(task.topic),
             subtopic |-> task.subtopic,
             description |-> IF IsSome(task.pro_tip)
                             THEN Some(Get(task.description) \o <<"\n\nPro-tip: ">>
                                       \o Get(task.pro_tip))
                             ELSE task.description,
             task_type |-> task.task_type,
             scheduled_date |-> IsoFormat(start_date + i),
             duration_minutes |-> GetOr(task.duration_minutes, DailyMinutes(daily_hours)),
             priority |-> GetOr(task.priority, 2)])]

\* the body of the loop over provided_tasks for entry task at index i:
\* the exception raised, or the task appended
DelegatedTask(i, task, subject, topics, start_date, daily_hours) ==
    IF ~task.obj THEN [raised |-> "TypeError", task |-> None]
    ELSE IF IsSome(task.pro_tip) /\ ~IsSome(task.description)
         THEN [raised |-> "KeyError", task |-> None]
    ELSE IF ~IsSome(task.topic) THEN [raised |-> "KeyError", task |-> None]
    ELSE LET topic == Get(task.topic)
             generic == \/ Lower(topic) = Lower(subject)
                        \/ \E k \in DOMAIN topics : Lower(topic) = Lower(topics[k])
         IN  [raised |-> "",
              task |-> Some(
                [topic |-> IF generic
                           THEN topic \o <<": ">> \o GetOr(task.subtopic, <<"Core Concepts">>)
                           ELSE topic,
                 subtopic |-> task.subtopic,
                 description |-> IF IsSome(task.pro_tip)
                                 THEN Some(Get(task.description) \o <<"\n\nPro-tip: ">>
                                           \o Get(task.pro_tip))
                                 ELSE task.description,
                 task_type |-> task.task_type,
                 scheduled_date |-> IsoFormat(start_date + i),
                 duration_minutes |-> GetOr(task.duration_minutes, DailyMinutes(daily_hours)),
                 priority |-> GetOr(task.priority, 2)])]

\* (variant) the loop without `if i >= total_days: break`
RECURSIVE DelegatedLoopNoBreak(_, _, _, _, _, _, _, _)
DelegatedLoopNoBreak(i, acc, provided_tasks, subject, topics, start_date, total_days, daily_hours) ==
    IF i >= Len(provided_tasks) THEN [raised |-> "", tasks |-> acc]
    ELSE LET one == DelegatedTask(i, provided_tasks[i + 1], subject, topics,
                                  start_date, daily_hours)
         IN  IF one.raised # "" THEN [raised |-> one.raised, tasks |-> acc]
             ELSE DelegatedLoopNoBreak(i + 1, Append(acc, Get(one.task)), provided_tasks,
                                       subject, topics, start_date, total_days, daily_hours)

\* `for i, task in enumerate(provided_tasks)`, from index i on
RECURSIVE DelegatedLoop(_, _, _, _, _, _, _, _)
DelegatedLoop(i, acc, provided_tasks, subject, topics, start_date, total_days, daily_hours) ==
    IF i >= Len(provided_tasks) \/ i >= total_days THEN [raised |-> "", tasks |-> acc]
    ELSE LET one == DelegatedTask(i, provided_tasks[i + 1], subject, topics,
                                  start_date, daily_hours)
         IN  IF one.raised # "" THEN [raised |-> one.raised, tasks |-> acc]
             ELSE DelegatedLoop(i + 1, Append(acc, Get(one.task)), provided_tasks,
                                subject, topics, start_date, total_days, daily_hours)

\* the try block of generate_ai_study_plan: the exception raised inside it
\* ("" when none), whether a plan was returned from inside it, and the plan
Delegate(subject, topics, start_date, end_date, daily_hours, response) ==
    LET total_days == TotalDays(start_date, end_date)
        failed(e) == [raised |-> e, returned |-> FALSE, tasks |-> <<>>, metadata |-> <<>>]
    IN  IF response.kind = "raise" THEN failed("RequestException")
        ELSE IF response.status_code # 200 THEN failed("")
        ELSE IF response.kind = "body_not_json" THEN failed("ValueError")
        ELSE IF response.kind = "no_candidates" THEN failed("")
        ELSE IF response.kind = "candidate_shape" THEN failed("KeyError")
        ELSE IF JsonLoads(StripFences(response)) # ""
             THEN failed(JsonLoads(StripFences(response)))
        ELSE IF response.kind = "not_object" THEN failed("AttributeError")
        ELSE IF response.kind = "tasks_null" THEN failed("TypeError")
        ELSE LET provided_tasks == IF response.kind = "no_tasks_key" THEN <<>>
                                   ELSE response.tasks
                 loop == DelegatedLoop(0, <<>>, provided_tasks, subject, topics,
                                       start_date, total_days, daily_hours)
             IN  IF loop.raised # "" THEN failed(loop.raised)
                 ELSE [raised |-> "", returned |-> TRUE, tasks |-> loop.tasks,
                       metadata |-> response.metadata]

generate_ai_study_plan(subject, topics, start_date, end_date, daily_hours, env) ==
    IF ~env.gemini_key
    THEN generate_algorithmic_fallback(topics, start_date, end_date, daily_hours)
    ELSE LET d == Delegate(subject, topics, start_date, end_date, daily_hours, env.response)
         IN  IF d.returned
             THEN Returned(topics, daily_hours, d.tasks, d.metadata)
             ELSE generate_algorithmic_fallback(topics, start_date, end_date, daily_hours)

(***************************************************************************)
(* Inputs of the synthesizer.                                              *)
(***************************************************************************)
TopicPool == {<<"Algebra">>, <<"Geometry">>}
TopicLists == SeqsUpTo(TopicPool, MaxTopics)
Dates == 0 .. MaxDay
\* daily_hours: 0.01 h and 2 h
HoursChoices == {1, 200}
\* f"Subject ID {plan_data.subject_id}"
SubjectOf(subject_id) == <<"Subject ID ", subject_id>>

\* a topics list that names a topic and the title a rewrite of it gives
TitledTopics == << <<"Algebra">>, <<"Algebra", ": ", "Core Concepts">> >>
SynthArgs ==
    [subject : {SubjectOf("1")}, topics : TopicLists \cup {TitledTopics},
     start_date : Dates, end_date : Dates, daily_hours : HoursChoices]

\* entries the collaborator may put in "tasks"
FullEntry ==
    [obj |-> TRUE, topic |-> Some(<<"Limits">>), subtopic |-> Some(<<"Epsilon-delta">>),
     description |-> Some(<<"Work through the definition.">>),
     pro_tip |-> Some(<<"Draw it.">>), duration_minutes |-> Some(45),
     priority |-> Some(3), task_type |-> Some("review"),
     scheduled_date |-> Some(<<"iso", 99>>)]
GenericEntry ==
    [obj |-> TRUE, topic |-> Some(<<"ALGEBRA">>), subtopic |-> None,
     description |-> Some(<<"Read the chapter.">>), pro_tip |-> None,
     duration_minutes |-> None, priority |-> None, task_type |-> None,
     scheduled_date |-> None]
NoTopicEntry == [GenericEntry EXCEPT !.topic = None]
TipOnlyEntry == [FullEntry EXCEPT !.description = None]
ScalarEntry == [GenericEntry EXCEPT !.obj = FALSE, !.topic = None, !.description = None]
\* a task with values the collaborator was not asked for
OffRangeEntry ==
    [FullEntry EXCEPT !.duration_minutes = Some(0), !.priority = Some(7),
                      !.task_type = Some("quiz")]
\* a task named as a topic of the request, letter for letter
PlainEntry == [GenericEntry EXCEPT !.topic = Some(<<"Algebra">>)]
EntryPool ==
    {FullEntry, GenericEntry, NoTopicEntry, TipOnlyEntry, ScalarEntry, OffRangeEntry,
     PlainEntry}

Response(kind, status_code, fenced, tasks_) ==
    [kind |-> kind, status_code |-> status_code, fenced |-> fenced, tasks |-> tasks_,
     metadata |-> <<"curriculum goal of the collaborator">>]

FailureKinds ==
    {"raise", "body_not_json", "no_candidates", "candidate_shape", "invalid_json",
     "not_object", "no_tasks_key", "tasks_null"}

Responses ==
    {Response(k, 200, FALSE, <<>>) : k \in FailureKinds}
    \cup {Response("plan", 500, FALSE, <<>>)}
    \cup {Response("plan", 200, f, t) : f \in BOOLEAN, t \in SeqsUpTo(EntryPool, MaxProvided)}

\* without a key no request is sent
NoKey == [gemini_key |-> FALSE, response |-> Response("raise", 200, FALSE, <<>>)]
Envs == {NoKey} \cup {[gemini_key |-> TRUE, response |-> r] : r \in Responses}

NoArgs ==
    [subject |-> <<>>, topics |-> <<>>, start_date |-> 0, end_date |-> 0, daily_hours |-> 0]
NoCall == [fn |-> "none", args |-> NoArgs, env |-> NoKey, done |-> FALSE, result |-> Raised("")]

(***************************************************************************)
(* State of the other components while one is exercised.                   *)
(***************************************************************************)
NoRequest == [op |-> "none", task_id |-> 0, requested |-> None, old_status |-> None,
              http |-> 0]
NoAssessment ==
    [status |-> "none", user_id |-> 0, total_questions |-> 0, answered_questions |-> 0,
     correct_answers |-> 0, score |-> [num |-> 0, den |-> 1],
     gap_analysis |-> None, recommendations |-> <<>>]
NoSubmission == [answers |-> <<>>, http |-> 0, topic_performance |-> <<>>]

SynthIdle == call = NoCall /\ prev = "none"
TrackerIdle == plans = <<>> /\ tasks = <<>> /\ last = NoRequest /\ sessions = <<>>
ScoringIdle == assessment = NoAssessment /\ responses = <<>> /\ submitted = NoSubmission

(***************************************************************************)
(* Specification of generate_ai_study_plan: a request is drawn, then       *)
(* served.                                                                 *)
(***************************************************************************)
InitSynth ==
    /\ call \in {[fn |-> "generate_ai_study_plan", args |-> a, env |-> e, done |-> FALSE,
                   result |-> Raised("")] : a \in SynthArgs, e \in Envs}
    /\ prev = "none"
    /\ TrackerIdle /\ ScoringIdle

Synthesize ==
    /\ call.fn = "generate_ai_study_plan" /\ ~call.done
    /\ call' = [call EXCEPT !.done = TRUE,
                            !.result = generate_ai_study_plan(
                                call.args.subject, call.args.topics, call.args.start_date,
                                call.args.end_date, call.args.daily_hours, call.env)]
    /\ UNCHANGED <<prev, trackerVars, scoringVars>>

NextSynth == Synthesize
SpecSynth == InitSynth /\ [][NextSynth]_vars

(***************************************************************************)
(* Specification of generate_algorithmic_fallback called directly, again   *)
(* and again.                                                              *)
(***************************************************************************)
InitFallback == SynthIdle /\ TrackerIdle /\ ScoringIdle

CallFallback(topics, start_date, end_date, daily_hours) ==
    LET args == [subject |-> <<>>, topics |-> topics, start_date |-> start_date,
                 end_date |-> end_date, daily_hours |-> daily_hours]
    IN  /\ call' = [fn |-> "generate_algorithmic_fallback", args |-> args, env |-> NoKey,
                    done |-> TRUE,
                    result |-> generate_algorithmic_fallback(topics, start_date, end_date,
                                                             daily_hours)]
        /\ prev' = IF call.fn = "none" THEN "first"
                   ELSE IF call.args = args THEN "same" ELSE "other"
        /\ UNCHANGED <<trackerVars, scoringVars>>

\* ranges that end with a rotation of the templates, begin the next one, and
\* come back to the first topic
LongEnds == {Len(subtopic_templates) - 1, Len(subtopic_templates), MaxHorizon}

NextFallback ==
    \/ \E topics \in TopicLists, start_date \in Dates, end_date \in Dates,
          daily_hours \in HoursChoices :
           CallFallback(topics, start_date, end_date, daily_hours)
    \/ \E topics \in TopicLists, end_date \in LongEnds :
           CallFallback(topics, 0, end_date, 200)
SpecFallback == InitFallback /\ [][NextFallback]_vars

(***************************************************************************)
(* Plan persistence: generate_study_plan.  The database is                 *)
(* db = [plans, tasks]; the handler returns the HTTP status and the        *)
(* database it committed (the one it was given after a rollback).  Of a    *)
(* row, the columns kept are those some handler of the model reads back:   *)
(* titles, descriptions, resources, notes, plan_data and the creation      *)
(* times are written and never read.                                       *)
(***************************************************************************)
Users == {1, 2}
\* the users who create plans; the other one owns none
PlanOwners == {1}

\* (variant) total_tasks taken from the days of the range
NewPlanDays(user_id, plan_data, plan_structure) ==
    [user_id |-> user_id,
     total_tasks |-> TotalDays(plan_data.start_date, plan_data.end_date),
     completed_tasks |-> 0, status |-> "active"]

\* StudyPlan(...): completed_tasks and status take the column defaults
NewPlan(user_id, plan_data, plan_structure) ==
    [user_id |-> user_id,
     total_tasks |-> Len(plan_structure.tasks), completed_tasks |-> 0,
     status |-> "active"]

\* StudyTask(...): status and completed_at take the column defaults
NewTask(plan_id, task_data, plan_data) ==
    [plan_id |-> plan_id,
     topic |-> task_data.topic,
     subtopic |-> task_data.subtopic,
     task_type |-> GetOr(task_data.task_type, "study"),
     scheduled_date |-> IF IsIsoString(task_data.scheduled_date)
                        THEN FromIsoFormat(task_data.scheduled_date)
                        ELSE plan_data.start_date,
     duration_minutes |-> task_data.duration_minutes,
     priority |-> task_data.priority,
     status |-> "pending", completed_at |-> None]

generate_study_plan(db, plan_data, user_id, env) ==
    LET plan_structure == generate_ai_study_plan(
            SubjectOf(plan_data.subject_id), plan_data.topics, plan_data.start_date,
            plan_data.end_date, plan_data.daily_hours, env)
        plan_id == Len(db.plans) + 1
    IN  IF plan_structure.raised # ""
        THEN [http |-> 500, db |-> db]
        ELSE [http |-> 200,
              db |-> [plans |-> Append(db.plans, NewPlan(user_id, plan_data, plan_structure)),
                      tasks |-> db.tasks \o
                                [i \in 1 .. Len(plan_structure.tasks) |->
                                    NewTask(plan_id, plan_structure.tasks[i], plan_data)]]]

(***************************************************************************)
(* Task lifecycle tracker: update_task.                                    *)
(***************************************************************************)
\* datetime.utcnow()
UtcNow == "utcnow"

\* truth value of an Optional[str]: None and "" are false
Truthy(o) == IsSome(o) /\ Get(o) # ""

\* the row of the select ... join: the task with this id whose plan is the user's
Owned(db, task_id, user_id) ==
    /\ task_id \in 1 .. Len(db.tasks)
    /\ db.plans[db.tasks[task_id].plan_id].user_id = user_id

\* (variant) the counter incremented on every request for "completed"
CountOnUpdateNoGuard(old_status, status, completed_tasks) ==
    IF status = "completed" THEN completed_tasks + 1
    ELSE IF old_status = "completed" THEN completed_tasks - 1
    ELSE completed_tasks

\* (variant) the counter never decremented
CountOnUpdateNoDecrement(old_status, status, completed_tasks) ==
    IF status = "completed" /\ old_status # "completed" THEN completed_tasks + 1
    ELSE completed_tasks

\* plan.completed_tasks after the status of a task goes from old_status to status
CountOnUpdate(old_status, status, completed_tasks) ==
    IF status = "completed" /\ old_status # "completed" THEN completed_tasks + 1
    ELSE IF old_status = "completed" /\ status # "completed" THEN completed_tasks - 1
    ELSE completed_tasks

\* (variant) the timestamp set on every request for "completed" and kept otherwise
StampOnUpdateKeep(old_status, status, completed_at) ==
    IF status = "completed" THEN Some(UtcNow) ELSE completed_at

\* task.completed_at after the status of a task goes from old_status to status
StampOnUpdate(old_status, status, completed_at) ==
    IF status = "completed" /\ old_status # "completed" THEN Some(UtcNow)
    ELSE IF old_status = "completed" /\ status # "completed" THEN None
    ELSE completed_at

update_task(db, task_id, update_data, user_id) ==
    IF ~Owned(db, task_id, user_id) THEN [http |-> 404, db |-> db]
    ELSE LET task == db.tasks[task_id]
             plan == db.plans[task.plan_id]
             old_status == task.status
             status == Get(update_data.status)
             task1 == IF Truthy(update_data.status)
                      THEN [task EXCEPT !.status = status,
                                        !.completed_at =
                                            StampOnUpdate(old_status, status, @)]
                      ELSE task
             plan1 == IF Truthy(update_data.status)
                      THEN [plan EXCEPT !.completed_tasks =
                                            CountOnUpdate(old_status, status, @)]
                      ELSE plan
         IN  [http |-> 200,
              db |-> [plans |-> [db.plans EXCEPT ![task.plan_id] = plan1],
                      tasks |-> [db.tasks EXCEPT ![task_id] = task1]]]

(***************************************************************************)
(* Specification of the tracker: plans are created and their tasks         *)
(* updated, one request at a time.                                         *)
(***************************************************************************)
DB == [plans |-> plans, tasks |-> tasks]

\* requests for a plan, and the collaborator behind them
TrackerPlanData ==
    [subject_id : {"1"}, topics : {<<>>, <<<<"Algebra">>>>}, start_date : {0},
     end_date : 0 .. (MaxTasks - 1), daily_hours : {200}]
TrackerEnvs ==
    {NoKey,
     [gemini_key |-> TRUE, response |-> Response("plan", 200, TRUE, <<FullEntry>>)]}

\* request bodies of update_task
StatusValues == {"pending", "in_progress", "completed", "skipped"}
TaskUpdates ==
    {[status |-> s, notes |-> None] :
        s \in {None, Some("")} \cup {Some(v) : v \in StatusValues \cup {"archived"}}}
    \cup {[status |-> None, notes |-> Some("revisit")]}

InitTracker == SynthIdle /\ TrackerIdle /\ ScoringIdle

GenerateStudyPlan(plan_data, user_id, env) ==
    LET r == generate_study_plan(DB, plan_data, user_id, env)
    IN  /\ Len(r.db.tasks) <= MaxTasks
        /\ r.http = 200 => Len(r.db.tasks) > Len(tasks)
        /\ plans' = r.db.plans
        /\ tasks' = r.db.tasks
        /\ last' = [op |-> "generate_study_plan", task_id |-> 0, requested |-> None,
                    old_status |-> None, http |-> r.http]
        /\ UNCHANGED <<synthVars, scoringVars, sessions>>

UpdateTask(task_id, update_data, user_id) ==
    LET r == update_task(DB, task_id, update_data, user_id)
    IN  /\ plans' = r.db.plans
        /\ tasks' = r.db.tasks
        /\ last' = IF r.http = 200
                   THEN [op |-> "update_task", task_id |-> task_id,
                         requested |-> update_data.status,
                         old_status |-> Some(tasks[task_id].status), http |-> 200]
                   ELSE [NoRequest EXCEPT !.op = "update_task", !.http = r.http]
        /\ UNCHANGED <<synthVars, scoringVars, sessions>>

NextTracker ==
    \/ \E plan_data \in TrackerPlanData, user_id \in PlanOwners, env \in TrackerEnvs :
           GenerateStudyPlan(plan_data, user_id, env)
    \/ \E task_id \in 1 .. (Len(tasks) + 1), update_data \in TaskUpdates,
          user_id \in Users :
           UpdateTask(task_id, update_data, user_id)
SpecTracker == InitTracker /\ [][NextTracker]_vars

(***************************************************************************)
(* Concurrent update_task requests.  Each request has its own database     *)
(* session and yields to the others at its two awaits: the select of the   *)
(* task and its plan, and the commit.  Between them the session holds the  *)
(* rows as it read them; the assignments of the handler change those       *)
(* objects, and the commit writes, for each row, the columns whose value   *)
(* differs from the value read, as absolute values.  A commit is atomic.   *)
(*                                                                         *)
(* A session is [pc, task_id, update_data, user_id, seen, reads_after,     *)
(* commits_after, http]: seen is the database as of its select, and        *)
(* reads_after and commits_after count the commits that preceded its       *)
(* select and its commit.                                                  *)
(***************************************************************************)
\* (variant) the UPDATE of one row writing every column
FlushAll(stored, loaded, changed) ==
    [c \in DOMAIN stored |-> changed[c]]

\* the UPDATE of one row: the columns changed since they were loaded
Flush(stored, loaded, changed) ==
    [c \in DOMAIN stored |-> IF changed[c] # loaded[c] THEN changed[c] ELSE stored[c]]

\* await db.commit() of a session that read `seen`; the rows it touched are
\* those of its task and of the plan of that task
CommitUpdate(db, seen, task_id, update_data, user_id) ==
    LET after == update_task(seen, task_id, update_data, user_id).db
        plan_id == seen.tasks[task_id].plan_id
    IN  [plans |-> [db.plans EXCEPT
                       ![plan_id] = Flush(@, seen.plans[plan_id], after.plans[plan_id])],
         tasks |-> [db.tasks EXCEPT
                       ![task_id] = Flush(@, seen.tasks[task_id], after.tasks[task_id])]]

(***************************************************************************)
(* Specification of two interleaved update_task requests on one plan: the  *)
(* plan is generated and its tasks brought to some statuses one request at *)
(* a time, then two requests run with their steps interleaved.             *)
(***************************************************************************)
RaceSessions == {1, 2}
RacePlanData ==
    [subject_id |-> "1", topics |-> <<<<"Algebra">>>>, start_date |-> 0,
     end_date |-> MaxTasks - 1, daily_hours |-> 200]

\* the database after the plan is generated and task i is set to statuses[i]
RECURSIVE Prepared(_, _)
Prepared(statuses, n) ==
    IF n = 0
    THEN generate_study_plan([plans |-> <<>>, tasks |-> <<>>], RacePlanData, 1, NoKey).db
    ELSE update_task(Prepared(statuses, n - 1), n,
                     [status |-> Some(statuses[n]), notes |-> None], 1).db

RaceUpdates == {[status |-> s, notes |-> None] : s \in {None} \cup {Some(v) : v \in StatusValues}}
NewSession(task_id, update_data) ==
    [pc |-> "start", task_id |-> task_id, update_data |-> update_data, user_id |-> 1,
     seen |-> [plans |-> <<>>, tasks |-> <<>>], reads_after |-> 0, commits_after |-> 0,
     http |-> 0]
Commits == Cardinality({s \in DOMAIN sessions : sessions[s].pc = "done" /\ sessions[s].http = 200})

InitRace ==
    /\ SynthIdle /\ ScoringIdle /\ last = NoRequest
    /\ \E statuses \in [1 .. MaxTasks -> StatusValues] :
           LET db == Prepared(statuses, MaxTasks)
           IN  plans = db.plans /\ tasks = db.tasks
    /\ sessions \in [RaceSessions ->
                       {NewSession(t, u) : t \in 1 .. (MaxTasks + 1), u \in RaceUpdates}]

\* lines 312-322: the select, and the 404 when it finds no row
ReadTask(s) ==
    /\ sessions[s].pc = "start"
    /\ sessions' = [sessions EXCEPT ![s] =
           IF Owned(DB, @.task_id, @.user_id)
           THEN [@ EXCEPT !.pc = "read", !.seen = DB, !.reads_after = Commits]
           ELSE [@ EXCEPT !.pc = "done", !.http = 404]]
    /\ UNCHANGED <<plans, tasks, last, synthVars, scoringVars>>

\* lines 324-343: the assignments and the commit
CommitTask(s) ==
    /\ sessions[s].pc = "read"
    /\ LET me == sessions[s]
           db == CommitUpdate(DB, me.seen, me.task_id, me.update_data, me.user_id)
       IN  /\ plans' = db.plans
           /\ tasks' = db.tasks
    /\ sessions' = [sessions EXCEPT ![s] =
           [@ EXCEPT !.pc = "done", !.http = 200, !.commits_after = Commits]]
    /\ UNCHANGED <<last, synthVars, scoringVars>>

NextRace ==
    \/ \E s \in RaceSessions : ReadTask(s)
    \/ \E s \in RaceSessions : CommitTask(s)
SpecRace == InitRace /\ [][NextRace]_vars

(***************************************************************************)
(* Scoring engine: submit_assessment with generate_gap_analysis,           *)
(* calculate_level and generate_recommendations.                           *)
(*                                                                         *)
(* A float that is a quotient (a score, an accuracy) is the exact fraction *)
(* [num, den]; it is compared with a threshold by cross-multiplication.    *)
(* The dict topic_performance is the sequence of its items                 *)
(* [topic, correct, total] in insertion order.                             *)
(***************************************************************************)
\* table questions: row id = index
QuestionBank == <<
    [topic |-> <<"Algebra">>, correct_answer |-> "5"],
    [topic |-> <<"Calculus">>, correct_answer |-> "2x"],
    [topic |-> <<"Algebra">>, correct_answer |-> "x"] >>

\* select(Question).where(Question.id == question_id): found or not
Resolves(question_id) == question_id \in DOMAIN QuestionBank

Fraction(num, den) == [num |-> num, den |-> den]
\* correct / total * 100
Percent(correct, total) == Fraction(correct * 100, total)
Below(f, threshold) == f.num < threshold * f.den

\* the position of topic among the keys of topic_performance, 0 when absent
KeyIndex(topic_performance, topic) ==
    IF \E k \in DOMAIN topic_performance : topic_performance[k].topic = topic
    THEN CHOOSE k \in DOMAIN topic_performance : topic_performance[k].topic = topic
    ELSE 0

\* (variant) "total" counts the correct answers only
TallyCorrectOnly(topic_performance, topic, is_correct) ==
    LET k == KeyIndex(topic_performance, topic)
        inc == IF is_correct THEN 1 ELSE 0
    IN  IF k = 0
        THEN Append(topic_performance, [topic |-> topic, correct |-> 1, total |-> inc])
        ELSE [topic_performance EXCEPT ![k].correct = @ + 1, ![k].total = @ + inc]

\* the item of topic after one more answer to a question of it
Tally(topic_performance, topic, is_correct) ==
    LET k == KeyIndex(topic_performance, topic)
        inc == IF is_correct THEN 1 ELSE 0
    IN  IF k = 0
        THEN Append(topic_performance, [topic |-> topic, correct |-> inc, total |-> 1])
        ELSE [topic_performance EXCEPT ![k].correct = @ + inc, ![k].total = @ + 1]

\* (variant) an answer whose question does not resolve is kept as a wrong
\* answer to a question of no topic
ScoreAnswerNoSkip(acc, answer) ==
    LET found == Resolves(answer.question_id)
        is_correct == found /\ answer.answer = QuestionBank[answer.question_id].correct_answer
        topic == IF found THEN QuestionBank[answer.question_id].topic ELSE <<>>
    IN  [correct_count |-> acc.correct_count + (IF is_correct THEN 1 ELSE 0),
         topic_performance |-> Tally(acc.topic_performance, topic, is_correct),
         responses |-> Append(acc.responses,
                              [question_id |-> answer.question_id,
                               selected_answer |-> answer.answer,
                               is_correct |-> is_correct])]

\* the body of `for answer in submission.answers`
ScoreAnswer(acc, answer) ==
    IF ~Resolves(answer.question_id) THEN acc
    ELSE LET question == QuestionBank[answer.question_id]
             is_correct == answer.answer = question.correct_answer
         IN  [correct_count |-> acc.correct_count + (IF is_correct THEN 1 ELSE 0),
              topic_performance |-> Tally(acc.topic_performance, question.topic, is_correct),
              responses |-> Append(acc.responses,
                                   [question_id |-> answer.question_id,
                                    selected_answer |-> answer.answer,
                                    is_correct |-> is_correct])]

\* the loop over submission.answers, from position i on
RECURSIVE ScoreAnswers(_, _, _)
ScoreAnswers(i, answers, acc) ==
    IF i > Len(answers) THEN acc
    ELSE ScoreAnswers(i + 1, answers, ScoreAnswer(acc, answers[i]))

\* (variant) the thresholds taken as strict: accuracy > 80, accuracy > 60
calculate_levelStrict(topic_performance) ==
    LET RECURSIVE Sum(_, _)
        Sum(k, field) == IF k = 0 THEN 0
                         ELSE Sum(k - 1, field)
                              + (IF field = "correct" THEN topic_performance[k].correct
                                 ELSE topic_performance[k].total)
        total_correct == Sum(Len(topic_performance), "correct")
        total_questions == Sum(Len(topic_performance), "total")
    IN  IF Len(topic_performance) = 0 \/ total_questions = 0 THEN "beginner"
        ELSE IF total_correct * 100 > 80 * total_questions THEN "advanced"
        ELSE IF total_correct * 100 > 60 * total_questions THEN "intermediate"
        ELSE "beginner"

calculate_level(topic_performance) ==
    LET RECURSIVE Sum(_, _)
        Sum(k, field) == IF k = 0 THEN 0
                         ELSE Sum(k - 1, field)
                              + (IF field = "correct" THEN topic_performance[k].correct
                                 ELSE topic_performance[k].total)
        total_correct == Sum(Len(topic_performance), "correct")
        total_questions == Sum(Len(topic_performance), "total")
        accuracy == IF total_questions > 0 THEN Percent(total_correct, total_questions)
                    ELSE Fraction(0, 1)
    IN  IF Len(topic_performance) = 0 THEN "beginner"
        ELSE IF ~Below(accuracy, 80) THEN "advanced"
        ELSE IF ~Below(accuracy, 60) THEN "intermediate"
        ELSE "beginner"

\* (variant) the second test made on its own (`if`, not `elif`) and turned
\* round (accuracy <= 80)
RECURSIVE GapLoopNoElse(_, _, _, _)
GapLoopNoElse(k, topic_performance, gaps, strengths) ==
    IF k > Len(topic_performance) THEN [gaps |-> gaps, strengths |-> strengths]
    ELSE LET performance == topic_performance[k]
             accuracy == IF performance.total > 0
                         THEN Percent(performance.correct, performance.total)
                         ELSE Fraction(0, 1)
         IN  GapLoopNoElse(k + 1, topic_performance,
                 IF Below(accuracy, 50)
                 THEN Append(gaps, [topic |-> performance.topic, accuracy |-> accuracy,
                                    severity |-> IF Below(accuracy, 30) THEN "high"
                                                 ELSE "medium"])
                 ELSE gaps,
                 IF accuracy.num <= 80 * accuracy.den
                 THEN Append(strengths, [topic |-> performance.topic, accuracy |-> accuracy])
                 ELSE strengths)

\* (variant) severity "high" up to and including an accuracy of 30
RECURSIVE GapLoopHighInclusive(_, _, _, _)
GapLoopHighInclusive(k, topic_performance, gaps, strengths) ==
    IF k > Len(topic_performance) THEN [gaps |-> gaps, strengths |-> strengths]
    ELSE LET performance == topic_performance[k]
             accuracy == IF performance.total > 0
                         THEN Percent(performance.correct, performance.total)
                         ELSE Fraction(0, 1)
         IN  GapLoopHighInclusive(k + 1, topic_performance,
                 IF Below(accuracy, 50)
                 THEN Append(gaps, [topic |-> performance.topic, accuracy |-> accuracy,
                                    severity |-> IF accuracy.num <= 30 * accuracy.den
                                                 THEN "high" ELSE "medium"])
                 ELSE gaps,
                 IF Below(accuracy, 80) THEN strengths
                 ELSE Append(strengths, [topic |-> performance.topic,
                                         accuracy |-> accuracy]))

\* the loop of generate_gap_analysis over topic_performance.items(), from item k on
RECURSIVE GapLoop(_, _, _, _)
GapLoop(k, topic_performance, gaps, strengths) ==
    IF k > Len(topic_performance) THEN [gaps |-> gaps, strengths |-> strengths]
    ELSE LET performance == topic_performance[k]
             accuracy == IF performance.total > 0
                         THEN Percent(performance.correct, performance.total)
                         ELSE Fraction(0, 1)
         IN  IF Below(accuracy, 50)
             THEN GapLoop(k + 1, topic_performance,
                          Append(gaps, [topic |-> performance.topic, accuracy |-> accuracy,
                                        severity |-> IF Below(accuracy, 30) THEN "high"
                                                     ELSE "medium"]),
                          strengths)
             ELSE IF ~Below(accuracy, 80)
             THEN GapLoop(k + 1, topic_performance, gaps,
                          Append(strengths, [topic |-> performance.topic,
                                             accuracy |-> accuracy]))
             ELSE GapLoop(k + 1, topic_performance, gaps, strengths)

generate_gap_analysis(topic_performance) ==
    LET loop == GapLoop(1, topic_performance, <<>>, <<>>)
    IN  [gaps |-> loop.gaps, strengths |-> loop.strengths,
         overall_level |-> calculate_level(topic_performance)]

\* (variant) one directive for a gap of severity "high"
RECURSIVE RecommendLoopOne(_, _, _)
RecommendLoopOne(k, gaps, recommendations) ==
    IF k > Len(gaps) THEN recommendations
    ELSE RecommendLoopOne(k + 1, gaps,
            Append(recommendations,
                   IF gaps[k].severity = "high"
                   THEN <<"Priority: Review fundamentals of ">> \o gaps[k].topic
                   ELSE <<"Practice more problems on ">> \o gaps[k].topic))

\* the loop of generate_recommendations over the gaps, from gap k on
RECURSIVE RecommendLoop(_, _, _)
RecommendLoop(k, gaps, recommendations) ==
    IF k > Len(gaps) THEN recommendations
    ELSE RecommendLoop(k + 1, gaps,
            IF gaps[k].severity = "high"
            THEN recommendations
                 \o << <<"Priority: Review fundamentals of ">> \o gaps[k].topic,
                       <<"Watch video tutorials on ">> \o gaps[k].topic >>
            ELSE Append(recommendations, <<"Practice more problems on ">> \o gaps[k].topic))

generate_recommendations(gap_analysis) ==
    LET recommendations == RecommendLoop(1, gap_analysis.gaps, <<>>)
    IN  IF recommendations = <<>>
        THEN << <<"Great job! Move on to advanced topics.">> >>
        ELSE recommendations

\* (variant) the quotient without the guard on an empty answers list
ScoreOfNoGuard(correct_count, answers) == Percent(correct_count, Len(answers))

\* score = (correct_count / len(submission.answers) * 100) if submission.answers else 0
ScoreOf(correct_count, answers) ==
    IF Len(answers) > 0 THEN Percent(correct_count, Len(answers)) ELSE Fraction(0, 1)

\* (variant) no assessment is taken as completed already
AlreadyCompletedNever(row) == FALSE

\* if assessment.status == "completed": raise HTTPException(400)
AlreadyCompleted(row) == row.status = "completed"

\* the handler on sdb = [assessment, responses]: the HTTP status, the
\* committed database and the topic_performance of the reply
submit_assessment(sdb, submission, user_id) ==
    IF sdb.assessment.status = "none" \/ sdb.assessment.user_id # user_id
    THEN [http |-> 404, sdb |-> sdb, topic_performance |-> <<>>]
    ELSE IF AlreadyCompleted(sdb.assessment)
    THEN [http |-> 400, sdb |-> sdb, topic_performance |-> <<>>]
    ELSE LET done == ScoreAnswers(1, submission.answers,
                                  [correct_count |-> 0, topic_performance |-> <<>>,
                                   responses |-> <<>>])
             score == ScoreOf(done.correct_count, submission.answers)
             gap_analysis == generate_gap_analysis(done.topic_performance)
         IN  [http |-> 200,
              sdb |-> [assessment |->
                          [sdb.assessment EXCEPT
                              !.correct_answers = done.correct_count,
                              !.answered_questions = Len(submission.answers),
                              !.score = score,
                              !.status = "completed",
                              !.gap_analysis = Some(gap_analysis),
                              !.recommendations = generate_recommendations(gap_analysis)],
                       responses |-> sdb.responses \o done.responses],
              topic_performance |-> done.topic_performance]

\* the row start_assessment inserts: num_questions = min(10, len(all_questions))
start_assessment(user_id) ==
    [NoAssessment EXCEPT
        !.status = "in_progress", !.user_id = user_id,
        !.total_questions = IF Len(QuestionBank) < 10 THEN Len(QuestionBank) ELSE 10]

(***************************************************************************)
(* Specification of the scoring engine: an assessment is started, then     *)
(* submitted, by its user or by another, once or again.                    *)
(***************************************************************************)
\* an id past the bank does not resolve
AnswerChoices ==
    [question_id : 1 .. (Len(QuestionBank) + 1), answer : {"5", "x"}]
Submissions == [answers : SeqsUpTo(AnswerChoices, MaxAnswers)]
\* bodies sent to an assessment that is completed already
Resubmissions == [answers : SeqsUpTo(AnswerChoices, 1)]

InitScoring == SynthIdle /\ TrackerIdle /\ ScoringIdle

StartAssessment(user_id) ==
    /\ assessment.status = "none"
    /\ assessment' = start_assessment(user_id)
    /\ UNCHANGED <<responses, submitted, synthVars, trackerVars>>

SubmitAssessment(submission, user_id) ==
    LET r == submit_assessment([assessment |-> assessment, responses |-> responses],
                               submission, user_id)
    IN  /\ assessment' = r.sdb.assessment
        /\ responses' = r.sdb.responses
        /\ submitted' = IF r.http = 200
                        THEN [answers |-> submission.answers, http |-> 200,
                              topic_performance |-> r.topic_performance]
                        ELSE [submitted EXCEPT !.http = r.http]
        /\ UNCHANGED <<synthVars, trackerVars>>

NextScoring ==
    \/ \E user_id \in PlanOwners : StartAssessment(user_id)
    \/ \E user_id \in Users :
          \E submission \in (IF assessment.status = "completed" THEN Resubmissions
                              ELSE Submissions) :
              SubmitAssessment(submission, user_id)
SpecScoring == InitScoring /\ [][NextScoring]_vars

(***************************************************************************)
(* Specification of the analysis functions on their own: a                 *)
(* topic_performance map, or a list of gaps, is drawn, then analysed.      *)
(***************************************************************************)
MaxTotal == 10      \* most questions of one topic in a topic_performance map
MaxGaps == 3        \* longest list of gaps handed to generate_recommendations

AnalysisTopics == {<<"Algebra">>, <<"Calculus">>}
\* {"correct": c, "total": t} with c <= t, an item never counted included
Performances == {pf \in [correct : 0 .. MaxTotal, total : 0 .. MaxTotal] :
                    pf.correct <= pf.total}
PerformanceItem(topic, pf) == [topic |-> topic, correct |-> pf.correct, total |-> pf.total]
\* the dicts over the topics: the keys are distinct, in either insertion order
PerformanceMaps ==
    {<<>>}
    \cup {<<PerformanceItem(t, pf)>> : t \in AnalysisTopics, pf \in Performances}
    \cup {<<PerformanceItem(q[1], q[3]), PerformanceItem(q[2], q[4])>> :
            q \in {r \in AnalysisTopics \X AnalysisTopics \X Performances \X Performances :
                      r[1] # r[2]}}
\* lists of gaps as generate_recommendations accepts them, a topic twice included
GapEntries == [topic : AnalysisTopics, accuracy : {Fraction(0, 1)},
               severity : {"high", "medium"}]
GapLists == SeqsUpTo(GapEntries, MaxGaps)

AnalysisCall(fn, args) ==
    [fn |-> fn, args |-> args, env |-> NoKey, done |-> FALSE, result |-> Raised("")]

InitAnalysis ==
    /\ call \in {AnalysisCall("generate_gap_analysis", [topic_performance |-> tp]) :
                    tp \in PerformanceMaps}
               \cup {AnalysisCall("generate_recommendations", [gaps |-> g]) :
                        g \in GapLists}
    /\ prev = "none"
    /\ TrackerIdle /\ ScoringIdle

\* generate_gap_analysis, then generate_recommendations on its result, as
\* submit_assessment calls them
Analyse ==
    /\ call.fn = "generate_gap_analysis" /\ ~call.done
    /\ LET gap_analysis == generate_gap_analysis(call.args.topic_performance)
       IN  call' = [call EXCEPT !.done = TRUE,
                                !.result = [raised |-> "", gap_analysis |-> gap_analysis,
                                            recommendations |->
                                                generate_recommendations(gap_analysis)]]
    /\ UNCHANGED <<prev, trackerVars, scoringVars>>

Recommend ==
    /\ call.fn = "generate_recommendations" /\ ~call.done
    /\ call' = [call EXCEPT !.done = TRUE,
                            !.result = [raised |-> "",
                                        recommendations |->
                                            generate_recommendations(call.args)]]
    /\ UNCHANGED <<prev, trackerVars, scoringVars>>

NextAnalysis == Analyse \/ Recommend
SpecAnalysis == InitAnalysis /\ [][NextAnalysis]_vars

(***************************************************************************)
(* generate_adaptive_plan: the fixed distribution of topics over days by   *)
(* priority.  Its tasks carry scheduled_date as a date, not as a string.   *)
(***************************************************************************)
\* the priority the loop over gap_analysis["gaps"] leaves: the last gap of
\* the topic decides
RECURSIVE GapPriority(_, _, _, _)
GapPriority(k, gaps, topic, priority) ==
    IF k > Len(gaps) THEN priority
    ELSE GapPriority(k + 1, gaps, topic,
                     IF gaps[k].topic = topic
                     THEN (IF gaps[k].severity = "high" THEN 3 ELSE 2)
                     ELSE priority)

\* topic_priority[topic]
TopicPriority(topic, gap_analysis, focus_areas) ==
    LET priority == IF IsSome(gap_analysis) /\ Get(gap_analysis) # <<>>
                    THEN GapPriority(1, Get(gap_analysis), topic, 2)
                    ELSE 2
        focused == /\ IsSome(focus_areas)
                   /\ \E k \in DOMAIN Get(focus_areas) : Get(focus_areas)[k] = topic
    IN  IF focused THEN (IF priority + 1 < 3 THEN priority + 1 ELSE 3) ELSE priority

\* (variant) sorted(topics, key=...) without reverse=True
RECURSIVE SortedAscending(_, _, _)
SortedAscending(topics, gap_analysis, focus_areas) ==
    IF topics = <<>> THEN <<>>
    ELSE LET n == Len(topics)
             x == topics[n]
             key(t) == TopicPriority(t, gap_analysis, focus_areas)
             rest == SortedAscending(SubSeq(topics, 1, n - 1), gap_analysis, focus_areas)
             keep == Cardinality({k \in DOMAIN rest : key(rest[k]) <= key(x)})
         IN  SubSeq(rest, 1, keep) \o <<x>> \o SubSeq(rest, keep + 1, Len(rest))

\* sorted(topics, key=lambda t: topic_priority[t], reverse=True): a stable
\* sort, the last topic inserted behind those of a priority not below its own
RECURSIVE SortedTopics(_, _, _)
SortedTopics(topics, gap_analysis, focus_areas) ==
    IF topics = <<>> THEN <<>>
    ELSE LET n == Len(topics)
             x == topics[n]
             key(t) == TopicPriority(t, gap_analysis, focus_areas)
             rest == SortedTopics(SubSeq(topics, 1, n - 1), gap_analysis, focus_areas)
             keep == Cardinality({k \in DOMAIN rest : key(rest[k]) >= key(x)})
         IN  SubSeq(rest, 1, keep) \o <<x>> \o SubSeq(rest, keep + 1, Len(rest))

AdaptiveTask(topic, subtopic, task_type, scheduled_date, duration_minutes, priority) ==
    [topic |-> topic, subtopic |-> subtopic, task_type |-> task_type,
     scheduled_date |-> scheduled_date, duration_minutes |-> duration_minutes,
     priority |-> priority]

\* the study and the practice task of the topics of one day, from topic k on
RECURSIVE DayTasks(_, _, _, _, _, _)
DayTasks(k, day_topics, current_date, minutes_per_topic, gap_analysis, focus_areas) ==
    IF k > Len(day_topics) THEN <<>>
    ELSE LET topic == day_topics[k]
             priority == TopicPriority(topic, gap_analysis, focus_areas)
         IN  << AdaptiveTask(topic, "Concept Review", "study", current_date,
                             minutes_per_topic \div 2, priority),
                AdaptiveTask(topic, "Practice Problems", "practice", current_date,
                             minutes_per_topic \div 2, priority) >>
             \o DayTasks(k + 1, day_topics, current_date, minutes_per_topic,
                         gap_analysis, focus_areas)

\* while current_date <= end_date and topic_index < len(sorted_topics)
RECURSIVE DistributeLoop(_, _, _, _, _, _, _, _)
DistributeLoop(current_date, topic_index, sorted_topics, topics_per_day, end_date, daily_minutes, gap_analysis, focus_areas) ==
    IF ~(current_date <= end_date /\ topic_index < Len(sorted_topics)) THEN <<>>
    ELSE LET last_index == IF topic_index + topics_per_day < Len(sorted_topics)
                           THEN topic_index + topics_per_day ELSE Len(sorted_topics)
             day_topics == SubSeq(sorted_topics, topic_index + 1, last_index)
             minutes_per_topic == IF day_topics # <<>>
                                  THEN daily_minutes \div Len(day_topics)
                                  ELSE daily_minutes
         IN  DayTasks(1, day_topics, current_date, minutes_per_topic, gap_analysis,
                      focus_areas)
             \o DistributeLoop(current_date + 1, topic_index + topics_per_day,
                               sorted_topics, topics_per_day, end_date, daily_minutes,
                               gap_analysis, focus_areas)

\* the review tasks of the days end_date - i, i in range(min(3, total_days))
ReviewTasks(end_date, total_days, daily_minutes) ==
    LET count == IF total_days < 3 THEN (IF total_days > 0 THEN total_days ELSE 0) ELSE 3
    IN  [i \in 1 .. count |->
            AdaptiveTask(<<"Review">>, "Comprehensive Review", "review",
                         end_date - (i - 1), daily_minutes, 3)]

\* gap_analysis is None or the list under its key "gaps"
generate_adaptive_plan(topics, start_date, end_date, daily_hours, gap_analysis, focus_areas) ==
    LET total_days == TotalDays(start_date, end_date)
        sorted_topics == SortedTopics(topics, gap_analysis, focus_areas)
        \* Python's // rounds down, also below zero: n // d = -((n + (-d) - 1) div (-d))
        quotient == IF total_days > 0 THEN Len(sorted_topics) \div total_days
                    ELSE -((Len(sorted_topics) + (-total_days) - 1) \div (-total_days))
        topics_per_day == IF quotient > 1 THEN quotient ELSE 1
        daily_minutes == DailyMinutes(daily_hours)
    IN  IF total_days = 0 THEN Raised("ZeroDivisionError")
        ELSE [raised |-> "", topics |-> topics, daily_hours |-> daily_hours,
              tasks |-> DistributeLoop(start_date, 0, sorted_topics, topics_per_day,
                                       end_date, daily_minutes, gap_analysis, focus_areas)
                        \o ReviewTasks(end_date, total_days, daily_minutes)]

(***************************************************************************)
(* Specification of generate_adaptive_plan: arguments are drawn, then the  *)
(* plan is made.                                                           *)
(***************************************************************************)
MaxPlanTopics == 3  \* longest topics list given to generate_adaptive_plan

AdaptiveTopicPool == {<<"Algebra">>, <<"Calculus">>, <<"Geometry">>}
\* the gaps of an earlier analysis: no topic twice
AdaptiveGaps ==
    {g \in SeqsUpTo([topic : AdaptiveTopicPool, severity : {"high", "medium"}], 2) :
        \A i, j \in DOMAIN g : g[i].topic = g[j].topic => i = j}
AdaptiveArgs ==
    [topics : SeqsUpTo(AdaptiveTopicPool, MaxPlanTopics),
     start_date : {0}, end_date : (-2) .. 2, daily_hours : {200},
     gap_analysis : {None} \cup {Some(g) : g \in AdaptiveGaps},
     focus_areas : {None, Some(<<>>)} \cup {Some(<<t>>) : t \in AdaptiveTopicPool}]

InitAdaptive ==
    /\ call \in {AnalysisCall("generate_adaptive_plan", a) : a \in AdaptiveArgs}
    /\ prev = "none"
    /\ TrackerIdle /\ ScoringIdle

Adapt ==
    /\ call.fn = "generate_adaptive_plan" /\ ~call.done
    /\ call' = [call EXCEPT
                    !.done = TRUE,
                    !.result = generate_adaptive_plan(
                                   call.args.topics, call.args.start_date,
                                   call.args.end_date, call.args.daily_hours,
                                   call.args.gap_analysis, call.args.focus_areas)]
    /\ UNCHANGED <<prev, trackerVars, scoringVars>>

NextAdaptive == Adapt
SpecAdaptive == InitAdaptive /\ [][NextAdaptive]_vars

(***************************************************************************)
(* Tutor: chat_with_tutor.  The environment of a request is                *)
(*   [gemini_key, gemini_model, gemini, free]                              *)
(* with gemini and free giving, per model name, what requests.post does    *)
(* when that model is asked:                                               *)
(*   "fail"           an exception, or a status other than 200             *)
(*   "nonconforming"  200 with a body that carries no reply                *)
(*   "empty"          200 with a reply slot that is empty ("" for Gemini,  *)
(*                    choices[0] without content or text for OpenRouter)   *)
(*   "text"           200 with a reply                                     *)
(* The prompt built from the grade level does not bear on which models are *)
(* asked and is left out.  ai_text is None, Some(<<>>) for "" or Some of   *)
(* a reply.                                                                *)
(***************************************************************************)
FREE_MODELS ==
    <<"google/gemma-2-9b-it:free", "meta-llama/llama-3.1-8b-instruct:free",
      "microsoft/phi-3-mini-128k-instruct:free">>

\* [x for x in models if not (x in seen or seen.add(x))]
RECURSIVE Deduplicated(_)
Deduplicated(models) ==
    IF models = <<>> THEN <<>>
    ELSE LET n == Len(models)
             front == Deduplicated(SubSeq(models, 1, n - 1))
         IN  IF \E k \in DOMAIN front : front[k] = models[n] THEN front
             ELSE Append(front, models[n])

gemini_models_to_try(gemini_model) ==
    Deduplicated(<<gemini_model, "gemini-2.0-flash-exp", "gemini-1.5-flash",
                   "gemini-1.5-flash-latest", "gemini-1.5-pro", "gemini-pro">>)

ReplyOf(model) == <<"reply of ", model>>
LocalReply == <<"local reply">>
\* `if ai_text` / `if not ai_text`
HasText(ai_text) == IsSome(ai_text) /\ Get(ai_text) # <<>>

\* the loop over gemini_models_to_try, from model k on; st = [ai_text,
\* model_used, called]
RECURSIVE GeminiLoop(_, _, _, _)
GeminiLoop(k, models, env, st) ==
    IF k > Len(models) THEN st
    ELSE LET try_model == models[k]
             outcome == env.gemini[try_model]
             asked == [st EXCEPT !.called = Append(@, try_model)]
         IN  IF outcome \in {"text", "empty"}
             THEN [asked EXCEPT !.ai_text = IF outcome = "text" THEN Some(ReplyOf(try_model))
                                            ELSE Some(<<>>),
                                !.model_used = Some(try_model)]
             ELSE GeminiLoop(k + 1, models, env, asked)

\* the loop `for model in FREE_MODELS`, from model k on
RECURSIVE FreeLoop(_, _, _)
FreeLoop(k, env, st) ==
    IF k > Len(FREE_MODELS) THEN st
    ELSE LET model == FREE_MODELS[k]
             outcome == env.free[model]
             asked == [st EXCEPT !.called = Append(@, model)]
             \* after `if isinstance(data.get("choices"), list) and data["choices"]`
             chosen == IF outcome = "text" THEN Some(ReplyOf(model))
                       ELSE IF outcome = "empty" THEN None
                       ELSE asked.ai_text
             \* after `if not ai_text: ai_text = data.get("text") or data.get("response")`
             ai_text == IF HasText(chosen) THEN chosen ELSE None
         IN  IF outcome = "fail" THEN FreeLoop(k + 1, env, asked)
             ELSE IF HasText(ai_text)
             THEN [asked EXCEPT !.ai_text = ai_text, !.model_used = Some(model)]
             ELSE FreeLoop(k + 1, env, [asked EXCEPT !.ai_text = ai_text])

\* the handler: the reply, the conversation row it commits and, as a
\* record of the run, the models asked in order
chat_with_tutor(message, env) ==
    LET start == [ai_text |-> None, model_used |-> None, called |-> <<>>]
        after_gemini == IF env.gemini_key
                        THEN GeminiLoop(1, gemini_models_to_try(env.gemini_model), env, start)
                        ELSE start
        after_free == FreeLoop(1, env, after_gemini)
        ai_text == IF HasText(after_free.ai_text) THEN Get(after_free.ai_text)
                   ELSE LocalReply
    IN  [raised |-> "",
         response |-> ai_text,
         model_used |-> GetOr(after_free.model_used, "local_fallback"),
         conversation |-> [message |-> message, response |-> ai_text],
         called |-> after_free.called]

(***************************************************************************)
(* Specification of chat_with_tutor: the behaviour of the models is drawn, *)
(* then a message is answered.                                             *)
(***************************************************************************)
DefaultGeminiModel == "gemini-1.5-flash"
Outcomes == {"fail", "nonconforming", "empty", "text"}
GeminiNames ==
    {gemini_models_to_try(DefaultGeminiModel)[k] :
        k \in DOMAIN gemini_models_to_try(DefaultGeminiModel)}
FreeNames == {FREE_MODELS[k] : k \in DOMAIN FREE_MODELS}
\* without a key no Gemini model is asked
TutorEnvs ==
    [gemini_key : {TRUE}, gemini_model : {DefaultGeminiModel},
     gemini : [GeminiNames -> Outcomes], free : [FreeNames -> Outcomes]]
    \cup [gemini_key : {FALSE}, gemini_model : {DefaultGeminiModel},
          gemini : [GeminiNames -> {"fail"}], free : [FreeNames -> Outcomes]]

InitTutor ==
    /\ call \in {[AnalysisCall("chat_with_tutor", [message |-> <<"What is a limit?">>])
                    EXCEPT !.env = e] : e \in TutorEnvs}
    /\ prev = "none"
    /\ TrackerIdle /\ ScoringIdle

Chat ==
    /\ call.fn = "chat_with_tutor" /\ ~call.done
    /\ call' = [call EXCEPT !.done = TRUE,
                            !.result = chat_with_tutor(call.args.message, call.env)]
    /\ UNCHANGED <<prev, trackerVars, scoringVars>>

NextTutor == Chat
SpecTutor == InitTutor /\ [][NextTutor]_vars

(***************************************************************************)
(* Properties of the tracker (SpecTracker).                                *)
(***************************************************************************)
TaskIds == 1 .. Len(tasks)
PlanIds == 1 .. Len(plans)
TasksOf(p) == {t \in TaskIds : tasks[t].plan_id = p}
CompletedOf(p) == {t \in TasksOf(p) : tasks[t].status = "completed"}
LastUpdated == last.op = "update_task" /\ last.http = 200

\* C1: after any sequence of update_task calls made one at a time, every
\* plan's completed_tasks is the number of its tasks whose status is
\* "completed", and lies between 0 and total_tasks.
C1_CounterIsCompletedCount ==
    \A p \in PlanIds :
        /\ plans[p].completed_tasks = Cardinality(CompletedOf(p))
        /\ 0 <= plans[p].completed_tasks
        /\ plans[p].completed_tasks <= plans[p].total_tasks

\* C1 witness: an update has left a plan of two tasks with exactly one completed
C1_Witness ==
    /\ LastUpdated
    /\ \E p \in PlanIds :
          /\ plans[p].total_tasks = 2
          /\ plans[p].completed_tasks = 1
          /\ Cardinality(CompletedOf(p)) = 1

\* C2: a step that takes a task from a status other than "completed" to
\* "completed" sets its completed_at and adds exactly 1 to the owning plan's
\* completed_tasks; a step that takes it from "completed" to another status
\* clears completed_at and subtracts exactly 1.
C2_CrossingMovesCounterByOne ==
    [][\A t \in TaskIds :
          LET p == tasks[t].plan_id
          IN  /\ (tasks[t].status # "completed" /\ tasks'[t].status = "completed")
                    => /\ tasks'[t].completed_at # None
                       /\ plans'[p].completed_tasks = plans[p].completed_tasks + 1
              /\ (tasks[t].status = "completed" /\ tasks'[t].status # "completed")
                    => /\ tasks'[t].completed_at = None
                       /\ plans'[p].completed_tasks = plans[p].completed_tasks - 1]_vars

\* C2 witness: the latest update took a task out of "completed" while another
\* task of the plan stays completed
C2_Witness ==
    /\ LastUpdated
    /\ last.old_status = Some("completed")
    /\ tasks[last.task_id].status # "completed"
    /\ tasks[last.task_id].completed_at = None
    /\ plans[tasks[last.task_id].plan_id].completed_tasks = 1

\* C3: a step in which no task of a plan enters or leaves "completed" leaves
\* the plan's completed_tasks unchanged, and a task that neither enters nor
\* leaves "completed" keeps its completed_at; a repeated request for
\* "completed" is such a step.
C3_NoCrossingNoChange ==
    [][/\ \A t \in TaskIds :
            ((tasks[t].status = "completed") <=> (tasks'[t].status = "completed"))
                => tasks'[t].completed_at = tasks[t].completed_at
       /\ \A p \in PlanIds :
            (\A t \in TasksOf(p) :
                (tasks[t].status = "completed") <=> (tasks'[t].status = "completed"))
                => plans'[p].completed_tasks = plans[p].completed_tasks]_vars

\* C3 witness: the latest update asked for "completed" on a task that was
\* completed already, and the plan counts it once
C3_Witness ==
    /\ LastUpdated
    /\ last.requested = Some("completed")
    /\ last.old_status = Some("completed")
    /\ tasks[last.task_id].status = "completed"
    /\ tasks[last.task_id].completed_at # None
    /\ plans[tasks[last.task_id].plan_id].completed_tasks = 1

\* C4: from every reachable state, update_task(t -> "completed") followed by
\* update_task(t -> "pending") on a pending task t brings completed_tasks
\* back to its value k (through k + 1) and leaves completed_at empty.
C4_RoundTrip ==
    \A t \in TaskIds :
        tasks[t].status = "pending" =>
            LET p == tasks[t].plan_id
                owner == plans[p].user_id
                k == plans[p].completed_tasks
                there == update_task(DB, t, [status |-> Some("completed"), notes |-> None],
                                     owner)
                back == update_task(there.db, t, [status |-> Some("pending"), notes |-> None],
                                    owner)
            IN  /\ there.http = 200 /\ back.http = 200
                /\ there.db.plans[p].completed_tasks = k + 1
                /\ back.db.plans[p].completed_tasks = k
                /\ back.db.tasks[t].status = "pending"
                /\ back.db.tasks[t].completed_at = None

\* C4 witness: the latest update took a task back from "completed" to
\* "pending" in a plan whose other task is completed (k = 1)
C4_Witness ==
    /\ LastUpdated
    /\ last.requested = Some("pending")
    /\ last.old_status = Some("completed")
    /\ tasks[last.task_id].status = "pending"
    /\ tasks[last.task_id].completed_at = None
    /\ plans[tasks[last.task_id].plan_id].completed_tasks = 1
    /\ plans[tasks[last.task_id].plan_id].total_tasks = 2

(***************************************************************************)
(* Properties of the synthesizer (SpecSynth, SpecFallback).                *)
(***************************************************************************)
Served == call.fn = "generate_ai_study_plan" /\ call.done
ServedDays == TotalDays(call.args.start_date, call.args.end_date)
FallbackOfCall ==
    generate_algorithmic_fallback(call.args.topics, call.args.start_date,
                                  call.args.end_date, call.args.daily_hours)

\* the collaborator is unconfigured, fails, or answers with something that is
\* not an object holding a list of tasks that each are an object with a topic
CollaboratorFailed(env) ==
    \/ ~env.gemini_key
    \/ env.response.kind \in FailureKinds
    \/ env.response.status_code # 200
    \/ \E i \in DOMAIN env.response.tasks :
          ~env.response.tasks[i].obj \/ ~IsSome(env.response.tasks[i].topic)

\* C5: for start_date <= end_date, a plan returned by generate_ai_study_plan
\* holds exactly (end_date - start_date).days + 1 tasks, the i-th scheduled
\* on the i-th day of the range, on the fallback path and on the delegated
\* path with more or with fewer tasks than days.
C5_OneTaskPerDay ==
    (Served /\ call.args.start_date <= call.args.end_date /\ call.result.raised = "")
        => /\ Len(call.result.tasks) = ServedDays
           /\ \A i \in DOMAIN call.result.tasks :
                 call.result.tasks[i].scheduled_date
                     = IsoFormat(call.args.start_date + i - 1)

\* C6: generate_ai_study_plan never raises: every request, under every
\* behaviour of the collaborator, is answered with a plan.
C6_NeverRaises == Served => call.result.raised = ""

\* C7: whenever the collaborator is unconfigured, fails or answers with a
\* non-conforming payload, the result is exactly that of
\* generate_algorithmic_fallback on the same topics, dates and hours.
C7_FailureGivesFallback ==
    (Served /\ CollaboratorFailed(call.env)) => call.result = FallbackOfCall

\* C8: generate_algorithmic_fallback with an empty topics list and
\* start_date <= end_date does not raise and returns one task per day.
C8_EmptyTopicsServed ==
    (/\ call.fn = "generate_algorithmic_fallback"
     /\ call.args.topics = <<>>
     /\ call.args.start_date <= call.args.end_date)
        => /\ call.result.raised = ""
           /\ Len(call.result.tasks) = ServedDays

Scored == assessment.status = "completed"
Answers == submitted.answers
ResolvedAt == {i \in DOMAIN Answers : Resolves(Answers[i].question_id)}
CorrectAt ==
    {i \in ResolvedAt :
        Answers[i].answer = QuestionBank[Answers[i].question_id].correct_answer}
AnswerResolves(answer) == Resolves(answer.question_id)
ResolvedAnswers == SelectSeq(Answers, AnswerResolves)
TopicsAnswered == {QuestionBank[Answers[i].question_id].topic : i \in ResolvedAt}

\* C10: a submission is scored as if its answers with an unknown question_id
\* were not there: the response records are those of the other answers, in
\* order; correct_count and every topic's {correct, total} count only those;
\* and the batch is accepted.
C10_UnresolvedSkipped ==
    Scored =>
        /\ submitted.http \in {200, 400, 404}
        /\ Len(responses) = Len(ResolvedAnswers)
        /\ \A k \in DOMAIN responses :
              /\ responses[k].question_id = ResolvedAnswers[k].question_id
              /\ responses[k].selected_answer = ResolvedAnswers[k].answer
              /\ responses[k].is_correct
                    = (ResolvedAnswers[k].answer
                         = QuestionBank[ResolvedAnswers[k].question_id].correct_answer)
        /\ assessment.correct_answers = Cardinality(CorrectAt)
        /\ {submitted.topic_performance[k].topic : k \in DOMAIN submitted.topic_performance}
              = TopicsAnswered
        /\ \A k \in DOMAIN submitted.topic_performance :
              LET item == submitted.topic_performance[k]
                  of(I) == {i \in I : QuestionBank[Answers[i].question_id].topic = item.topic}
              IN  /\ item.total = Cardinality(of(ResolvedAt))
                  /\ item.correct = Cardinality(of(CorrectAt))

\* C10 witness: a scored submission held an answer with an unknown
\* question_id before a correct answer, which has its response record
C10_Witness ==
    /\ Scored
    /\ \E i, j \in DOMAIN Answers :
          /\ i < j
          /\ ~Resolves(Answers[i].question_id)
          /\ j \in CorrectAt
    /\ Len(responses) >= 1
    /\ responses[Len(responses)].is_correct
    /\ assessment.correct_answers >= 1

\* a/b = c/d, a/b <= c/d for fractions of positive denominator
SameValue(f, g) == f.num * g.den = g.num * f.den
AtMost(f, g) == f.num * g.den <= g.num * f.den
\* the answered questions: the answers that resolved and got a response record
AnsweredCount == Len(responses)

\* C11: the score of a completed assessment is correct_count /
\* answered_count * 100 over the answered questions (the answers that got a
\* response record), and 0 when there is none; so it lies in 0..100 and is
\* 100 exactly when every answered question is correct.
C11_ScoreOverAnswered ==
    Scored =>
        /\ assessment.score.den > 0
        /\ IF AnsweredCount = 0 THEN assessment.score.num = 0
           ELSE SameValue(assessment.score,
                          Percent(assessment.correct_answers, AnsweredCount))
        /\ AtMost(Fraction(0, 1), assessment.score)
        /\ AtMost(assessment.score, Fraction(100, 1))
        /\ (AnsweredCount > 0 =>
              (SameValue(assessment.score, Fraction(100, 1))
                  <=> \A k \in DOMAIN responses : responses[k].is_correct))

\* C12 as stated: a completed assessment has score 0 exactly when
\* answered_questions = 0.
C12_ZeroIffNothingAnswered ==
    Scored => ((assessment.score.num = 0) <=> (assessment.answered_questions = 0))

\* C12: a completed assessment in which no question was answered (the
\* submission was empty, or none of its answers resolved) has the score 0,
\* a well-defined number, although total_questions > 0.
C12_NothingAnsweredScoresZero ==
    (Scored /\ (assessment.answered_questions = 0 \/ AnsweredCount = 0))
        => assessment.score.num = 0 /\ assessment.score.den > 0

\* C12 witness: an assessment of several questions was completed by an empty
\* submission
C12_Witness ==
    /\ Scored
    /\ assessment.answered_questions = 0
    /\ assessment.total_questions > 0
    /\ submitted.http = 200
    /\ assessment.score = Fraction(0, 1)

(***************************************************************************)
(* Properties of the analysis functions (SpecAnalysis, SpecScoring).       *)
(***************************************************************************)
Analysed == call.fn = "generate_gap_analysis" /\ call.done
Recommended == call.fn \in {"generate_gap_analysis", "generate_recommendations"} /\ call.done
AnalysedMap == call.args.topic_performance
GapsOut == call.result.gap_analysis.gaps
StrengthsOut == call.result.gap_analysis.strengths
\* the gaps generate_recommendations was called on
GapsIn == IF call.fn = "generate_gap_analysis" THEN GapsOut ELSE call.args.gaps
NoRepeat(entries) ==
    \A i, j \in DOMAIN entries : entries[i].topic = entries[j].topic => i = j
\* the entries follow one another as their topics do in the map
InMapOrder(entries, map) ==
    \A i, j \in DOMAIN entries :
        i < j => KeyIndex(map, entries[i].topic) < KeyIndex(map, entries[j].topic)
RECURSIVE SumCorrect(_)
SumCorrect(map) == IF map = <<>> THEN 0 ELSE map[1].correct + SumCorrect(Tail(map))
RECURSIVE SumTotal(_)
SumTotal(map) == IF map = <<>> THEN 0 ELSE map[1].total + SumTotal(Tail(map))

\* C13: in the output of generate_gap_analysis no topic is both a gap and a
\* strength, and no topic is listed twice among the gaps or among the
\* strengths.
C13_GapsAndStrengthsDisjoint ==
    Analysed =>
        /\ \A i \in DOMAIN GapsOut : \A j \in DOMAIN StrengthsOut :
              GapsOut[i].topic # StrengthsOut[j].topic
        /\ NoRepeat(GapsOut)
        /\ NoRepeat(StrengthsOut)

\* C13 witness: a map of two topics was analysed into one gap and one strength
C13_Witness ==
    /\ Analysed
    /\ Len(AnalysedMap) = 2
    /\ Len(GapsOut) = 1
    /\ Len(StrengthsOut) = 1

\* C15: a topic with total > 0 and accuracy = correct/total*100 is a gap of
\* severity "high" when accuracy < 30, a gap of severity "medium" when
\* 30 <= accuracy < 50, a strength when accuracy >= 80 and neither when
\* 50 <= accuracy < 80; each entry carries that accuracy; gaps and strengths
\* keep the order of the topics in the map.
C15_Classification ==
    Analysed =>
        /\ \A k \in DOMAIN AnalysedMap :
              LET item == AnalysedMap[k]
                  c100 == item.correct * 100
                  AsGap(sev) == \E i \in DOMAIN GapsOut :
                                   /\ GapsOut[i].topic = item.topic
                                   /\ GapsOut[i].severity = sev
                                   /\ SameValue(GapsOut[i].accuracy,
                                                Fraction(item.correct * 100, item.total))
                  IsGap == \E i \in DOMAIN GapsOut : GapsOut[i].topic = item.topic
                  IsStrength == \E i \in DOMAIN StrengthsOut :
                                   /\ StrengthsOut[i].topic = item.topic
                                   /\ SameValue(StrengthsOut[i].accuracy,
                                                Fraction(item.correct * 100, item.total))
                  Listed == \E i \in DOMAIN StrengthsOut : StrengthsOut[i].topic = item.topic
              IN  item.total > 0 =>
                    /\ (c100 < 30 * item.total) => (AsGap("high") /\ ~Listed)
                    /\ (c100 >= 30 * item.total /\ c100 < 50 * item.total)
                          => (AsGap("medium") /\ ~Listed)
                    /\ (c100 >= 50 * item.total /\ c100 < 80 * item.total)
                          => (~IsGap /\ ~Listed)
                    /\ (c100 >= 80 * item.total) => (IsStrength /\ ~IsGap)
        /\ \A i \in DOMAIN GapsOut : KeyIndex(AnalysedMap, GapsOut[i].topic) > 0
        /\ \A i \in DOMAIN StrengthsOut : KeyIndex(AnalysedMap, StrengthsOut[i].topic) > 0
        /\ InMapOrder(GapsOut, AnalysedMap)
        /\ InMapOrder(StrengthsOut, AnalysedMap)

\* C15 witness: a topic with an accuracy of exactly 30 was classified as a
\* gap of severity "medium", after a topic that is a gap of severity "high"
C15_Witness ==
    /\ Analysed
    /\ Len(AnalysedMap) = 2
    /\ AnalysedMap[2].total > 0
    /\ AnalysedMap[2].correct * 100 = 30 * AnalysedMap[2].total
    /\ Len(GapsOut) = 2
    /\ GapsOut[1].severity = "high"
    /\ GapsOut[2].severity = "medium"

\* C16: calculate_level is "advanced" when the aggregate
\* total_correct/total_questions*100 is >= 80, "intermediate" when it is
\* >= 60 and < 80, "beginner" otherwise, and "beginner" for a map without
\* topics or without questions.
C16_Level ==
    Analysed =>
        LET correct100 == SumCorrect(AnalysedMap) * 100
            questions == SumTotal(AnalysedMap)
            level == call.result.gap_analysis.overall_level
        IN  /\ call.result.raised = ""
            /\ level \in {"advanced", "intermediate", "beginner"}
            /\ (level = "advanced") <=> (questions > 0 /\ correct100 >= 80 * questions)
            /\ (level = "intermediate")
                  <=> (questions > 0 /\ correct100 >= 60 * questions
                                    /\ correct100 < 80 * questions)

\* C16 witness: two topics with an aggregate accuracy of exactly 80 gave
\* "advanced" although one of them alone is below 80
C16_Witness ==
    /\ Analysed
    /\ Len(AnalysedMap) = 2
    /\ SumCorrect(AnalysedMap) * 100 = 80 * SumTotal(AnalysedMap)
    /\ AnalysedMap[1].correct * 100 < 80 * AnalysedMap[1].total
    /\ call.result.gap_analysis.overall_level = "advanced"

\* the directives of a list of gaps, in its order
RECURSIVE Directives(_)
Directives(gaps) ==
    IF gaps = <<>> THEN <<>>
    ELSE (IF gaps[1].severity = "high"
          THEN << <<"Priority: Review fundamentals of ">> \o gaps[1].topic,
                  <<"Watch video tutorials on ">> \o gaps[1].topic >>
          ELSE << <<"Practice more problems on ">> \o gaps[1].topic >>)
         \o Directives(Tail(gaps))
CountOf(gaps, severity) == Cardinality({i \in DOMAIN gaps : gaps[i].severity = severity})
AdvanceMessage == << <<"Great job! Move on to advanced topics.">> >>

\* C17: generate_recommendations gives, in the order of the gaps, two
\* directives for a gap of severity "high" and one for a gap of severity
\* "medium", 2 * high + medium directives in all, and the single advance
\* message exactly when there are no gaps.
C17_Recommendations ==
    Recommended =>
        /\ GapsIn # <<>> =>
              /\ call.result.recommendations = Directives(GapsIn)
              /\ Len(call.result.recommendations)
                    = 2 * CountOf(GapsIn, "high") + CountOf(GapsIn, "medium")
        /\ (call.result.recommendations = AdvanceMessage) <=> (GapsIn = <<>>)

\* C17 witness: a list with a gap of severity "medium" before one of
\* severity "high" gave three directives
C17_Witness ==
    /\ Recommended
    /\ Len(GapsIn) = 2
    /\ GapsIn[1].severity = "medium"
    /\ GapsIn[2].severity = "high"
    /\ Len(call.result.recommendations) = 3

ScoredMap == submitted.topic_performance
ScoredAnalysis == Get(assessment.gap_analysis)

\* C14: in the topic_performance map of a scored submission every topic has
\* 0 <= correct <= total and total >= 1, the corrects sum to correct_count
\* and to no more than the totals, and every accuracy of the gap analysis
\* lies in 0..100.
C14_PerformanceBounds ==
    Scored =>
        /\ \A k \in DOMAIN ScoredMap :
              /\ 0 <= ScoredMap[k].correct
              /\ ScoredMap[k].correct <= ScoredMap[k].total
              /\ ScoredMap[k].total >= 1
        /\ SumCorrect(ScoredMap) <= SumTotal(ScoredMap)
        /\ SumCorrect(ScoredMap) = assessment.correct_answers
        /\ \A e \in {ScoredAnalysis.gaps[i] : i \in DOMAIN ScoredAnalysis.gaps}
                   \cup {ScoredAnalysis.strengths[i] : i \in DOMAIN ScoredAnalysis.strengths} :
              /\ e.accuracy.den > 0
              /\ AtMost(Fraction(0, 1), e.accuracy)
              /\ AtMost(e.accuracy, Fraction(100, 1))

\* C14 witness: a scored submission with answers to two topics, one topic
\* answered wrongly only and reported as a gap, the other a strength
C14_Witness ==
    /\ Scored
    /\ Len(ScoredMap) = 2
    /\ \E k \in DOMAIN ScoredMap : ScoredMap[k].correct = 0
    /\ assessment.correct_answers >= 1
    /\ Len(ScoredAnalysis.gaps) = 1
    /\ Len(ScoredAnalysis.strengths) = 1

(***************************************************************************)
(* Properties of the persisted plans and tasks (SpecTracker).              *)
(***************************************************************************)
\* C18: every StudyTask's status is one of pending, in_progress, completed,
\* skipped, whatever bodies update_task was sent.
C18_StatusDomain == \A t \in TaskIds : tasks[t].status \in StatusValues

\* the plans and tasks after the step, as sets of ids and rows owned
TaskIdsNext == DOMAIN tasks'
TasksOfNext(p) == {t \in TaskIdsNext : tasks'[t].plan_id = p}

\* C19: after every step each plan's total_tasks is the number of tasks it
\* owns; a generation that succeeds adds one plan, with completed_tasks = 0,
\* and only tasks of that plan; one that fails adds and changes nothing; an
\* update_task changes no total_tasks, adds or removes no task and moves
\* none to another plan.
C19_TotalTasksIsTaskCount ==
    [][/\ \A p \in DOMAIN plans' : plans'[p].total_tasks = Cardinality(TasksOfNext(p))
       /\ (last'.op = "generate_study_plan" /\ last'.http = 200) =>
             /\ Len(plans') = Len(plans) + 1
             /\ plans'[Len(plans')].completed_tasks = 0
             /\ \A p \in PlanIds : plans'[p] = plans[p]
             /\ \A t \in TaskIds : tasks'[t] = tasks[t]
             /\ \A t \in TaskIdsNext \ TaskIds : tasks'[t].plan_id = Len(plans')
       /\ (last'.op = "generate_study_plan" /\ last'.http # 200) =>
             plans' = plans /\ tasks' = tasks
       /\ last'.op = "update_task" =>
             /\ Len(plans') = Len(plans)
             /\ Len(tasks') = Len(tasks)
             /\ \A p \in PlanIds : plans'[p].total_tasks = plans[p].total_tasks
             /\ \A t \in TaskIds : tasks'[t].plan_id = tasks[t].plan_id
      ]_vars

\* C19 witness: a generation failed after a plan with a task was stored and
\* updated, and the plan still counts its one task
C19_Witness ==
    /\ last.op = "generate_study_plan"
    /\ last.http = 500
    /\ Len(plans) = 1
    /\ plans[1].total_tasks = 1
    /\ plans[1].completed_tasks = 1
    /\ Cardinality(TasksOf(1)) = 1

(***************************************************************************)
(* Field domains of the synthesized tasks (SpecSynth).                     *)
(***************************************************************************)
Priorities == {1, 2, 3}
TaskTypes == {"study", "practice", "review"}
\* the row generate_study_plan stores for a synthesized task
StoredTask(task_data) == NewTask(1, task_data, call.args)

\* C20: every task of a plan returned by generate_ai_study_plan, as
\* generate_study_plan stores it, has duration_minutes > 0, a priority in
\* {1, 2, 3} and a task_type in {study, practice, review}.
C20_TaskFieldDomains ==
    (Served /\ call.result.raised = "") =>
        \A i \in DOMAIN call.result.tasks :
            LET row == StoredTask(call.result.tasks[i])
            IN  /\ row.duration_minutes > 0
                /\ row.priority \in Priorities
                /\ row.task_type \in TaskTypes

(***************************************************************************)
(* Task state machine and completion timestamp (SpecTracker).              *)
(***************************************************************************)
\* the transitions of the task state machine
AllowedTransitions ==
    ({"pending"} \X {"in_progress", "completed", "skipped"})
    \cup ({"in_progress"} \X {"completed", "skipped", "pending"})
    \cup ({"completed"} \X {"pending", "in_progress", "skipped"})

\* C21: every change of a task's status made by update_task, from one of
\* the four statuses to another, is a transition of the task state machine;
\* none leaves "skipped".
C21_OnlyAllowedTransitions ==
    [][\A t \in TaskIds :
          (/\ tasks'[t].status # tasks[t].status
           /\ tasks[t].status \in StatusValues
           /\ tasks'[t].status \in StatusValues)
              => <<tasks[t].status, tasks'[t].status>> \in AllowedTransitions]_vars

\* C29: a task has a completion timestamp exactly when its status is
\* "completed".
C29_StampIffCompleted ==
    \A t \in TaskIds : IsSome(tasks[t].completed_at) <=> (tasks[t].status = "completed")

\* C29 witness: the latest update took a completed task to "skipped" and
\* cleared its timestamp while another task of the plan keeps its own
C29_Witness ==
    /\ LastUpdated
    /\ last.requested = Some("skipped")
    /\ last.old_status = Some("completed")
    /\ tasks[last.task_id].completed_at = None
    /\ \E t \in TaskIds :
          /\ t # last.task_id
          /\ tasks[t].status = "completed"
          /\ tasks[t].completed_at = Some(UtcNow)

\* C27: once an assessment is completed, every later submit_assessment on it
\* is refused with an error status and leaves the assessment row (status,
\* score, correct_answers, gap_analysis, recommendations) and the response
\* records as they were.
C27_WrittenOnce ==
    [][Scored =>
          /\ assessment' = assessment
          /\ responses' = responses
          /\ submitted'.http \in {400, 404}
          /\ submitted'.answers = submitted.answers]_vars

\* C27 witness: a completed assessment with a response record has refused a
\* second submission of its user as a bad request
C27_Witness ==
    /\ Scored
    /\ submitted.http = 400
    /\ Len(responses) >= 1
    /\ assessment.correct_answers >= 1

(***************************************************************************)
(* The schedule of the fallback (SpecFallback).                            *)
(***************************************************************************)
\* the phases in the order of the rotation
PhaseOrder ==
    <<"Foundations & Fundamentals", "Step-by-Step Implementation", "Pattern Recognition",
      "Debugging & Troubleshooting", "Deep Architectural Review", "Consolidation Challenge">>
FallbackServed == call.fn = "generate_algorithmic_fallback" /\ call.args.topics # <<>>

\* C23: with non-empty topics the fallback returns one task per day of the
\* range; the task of day index i is scheduled on start_date + i, has the
\* topic topics[(i \div 6) mod len(topics)] and the phase number i mod 6,
\* task_type "study" for even i and "practice" for odd i, and
\* duration_minutes = int(daily_hours * 60).
C23_FallbackSchedule ==
    FallbackServed =>
        LET a == call.args
            days == IF a.end_date >= a.start_date THEN a.end_date - a.start_date + 1 ELSE 0
        IN  /\ call.result.raised = ""
            /\ Len(call.result.tasks) = days
            /\ \A n \in 1 .. days :
                  LET i == n - 1
                      task == call.result.tasks[n]
                      topic == a.topics[((i \div 6) % Len(a.topics)) + 1]
                      phase == PhaseOrder[(i % 6) + 1]
                  IN  /\ task.scheduled_date = <<"iso", a.start_date + i>>
                      /\ task.topic = topic \o <<": ", phase>>
                      /\ task.subtopic = Some(<<phase>>)
                      /\ task.task_type = Some(IF i % 2 = 0 THEN "study" ELSE "practice")
                      /\ task.duration_minutes = (a.daily_hours * 60) \div 100

\* C23 witness: a plan over two topics long enough for the second topic to
\* take over on the seventh day and the first to return on the thirteenth
C23_Witness ==
    /\ FallbackServed
    /\ Len(call.args.topics) = 2
    /\ call.args.topics[1] # call.args.topics[2]
    /\ Len(call.result.tasks) >= 13
    /\ call.result.tasks[6].topic = call.args.topics[1] \o <<": ", PhaseOrder[6]>>
    /\ call.result.tasks[7].topic = call.args.topics[2] \o <<": ", PhaseOrder[1]>>
    /\ call.result.tasks[13].topic = call.args.topics[1] \o <<": ", PhaseOrder[1]>>

(***************************************************************************)
(* The delegated path of generate_ai_study_plan (SpecSynth).               *)
(***************************************************************************)
\* the call was answered from the collaborator's payload
DelegatedServed ==
    /\ Served
    /\ call.env.gemini_key
    /\ Delegate(call.args.subject, call.args.topics, call.args.start_date,
                call.args.end_date, call.args.daily_hours, call.env.response).returned
ProvidedTasks == call.env.response.tasks
\* the names a topic is generic for: the subject and the input topics
GenericNames == {call.args.subject} \cup {call.args.topics[k] : k \in DOMAIN call.args.topics}
IsGeneric(topic) == \E name \in GenericNames : Lower(topic) = Lower(name)

\* C24: a delegated plan holds no more tasks than the range has days; its
\* i-th task comes from the i-th entry of the collaborator and is dated
\* start_date + i whatever date the entry carried, so the dates increase
\* strictly from start_date and do not pass end_date.
C24_TruncatedAndRedated ==
    DelegatedServed =>
        /\ Len(call.result.tasks) <= Len(ProvidedTasks)
        /\ Len(call.result.tasks) > 0 => Len(call.result.tasks) <= ServedDays
        /\ \A n \in DOMAIN call.result.tasks :
              /\ call.result.tasks[n].scheduled_date = <<"iso", call.args.start_date + n - 1>>
              /\ call.args.start_date + n - 1 <= call.args.end_date
              /\ call.result.tasks[n].subtopic = ProvidedTasks[n].subtopic
              /\ call.result.tasks[n].task_type = ProvidedTasks[n].task_type

\* C24 witness: the collaborator sent more tasks than the range has days,
\* the first with a date of its own, and a plan of one task was returned
C24_Witness ==
    /\ DelegatedServed
    /\ Len(ProvidedTasks) > ServedDays
    /\ ServedDays = 1
    /\ Len(call.result.tasks) = 1
    /\ ProvidedTasks[1].scheduled_date = Some(<<"iso", 99>>)
    /\ call.result.tasks[1].scheduled_date = <<"iso", call.args.start_date>>

\* C25 as stated: no task of a delegated plan has a topic equal to the
\* subject name or to an input topic.
C25_NoGenericTopicReturned ==
    DelegatedServed =>
        \A n \in DOMAIN call.result.tasks : call.result.tasks[n].topic \notin GenericNames

\* C25: in a delegated plan a task whose topic is the subject name or an
\* input topic (letter case aside) is titled "<topic>: <subtopic>", with
\* "Core Concepts" for a missing subtopic, and any other topic is kept; a
\* missing duration_minutes becomes int(daily_hours * 60) and a missing
\* priority 2; a returned topic equals an input topic only when it is such a
\* title.
C25_GenericTopicsRetitled ==
    DelegatedServed =>
        \A n \in DOMAIN call.result.tasks :
            LET sent == ProvidedTasks[n]
                task == call.result.tasks[n]
                title == Get(sent.topic) \o <<": ">>
                         \o (IF IsSome(sent.subtopic) THEN Get(sent.subtopic)
                             ELSE <<"Core Concepts">>)
            IN  /\ task.topic = IF IsGeneric(Get(sent.topic)) THEN title ELSE Get(sent.topic)
                /\ task.duration_minutes
                      = IF IsSome(sent.duration_minutes) THEN Get(sent.duration_minutes)
                        ELSE (call.args.daily_hours * 60) \div 100
                /\ task.priority = IF IsSome(sent.priority) THEN Get(sent.priority) ELSE 2
                /\ task.topic \in GenericNames => task.topic = title

\* C25 witness: a task named as an input topic, without subtopic, duration
\* or priority, was returned titled and with the defaults filled in
C25_Witness ==
    /\ DelegatedServed
    /\ Len(call.result.tasks) >= 1
    /\ ProvidedTasks[1].topic = Some(<<"ALGEBRA">>)
    /\ ProvidedTasks[1].subtopic = None
    /\ call.result.tasks[1].topic = <<"ALGEBRA", ": ", "Core Concepts">>
    /\ call.result.tasks[1].duration_minutes = 120
    /\ call.result.tasks[1].priority = 2

(***************************************************************************)
(* Properties of generate_adaptive_plan (SpecAdaptive).                    *)
(***************************************************************************)
Adapted ==
    /\ call.fn = "generate_adaptive_plan" /\ call.done
    /\ call.args.start_date <= call.args.end_date
\* the priority the claim gives a topic
HighGap(topic) ==
    /\ IsSome(call.args.gap_analysis)
    /\ \E k \in DOMAIN Get(call.args.gap_analysis) :
          /\ Get(call.args.gap_analysis)[k].topic = topic
          /\ Get(call.args.gap_analysis)[k].severity = "high"
InFocus(topic) ==
    /\ IsSome(call.args.focus_areas)
    /\ \E k \in DOMAIN Get(call.args.focus_areas) : Get(call.args.focus_areas)[k] = topic
ClaimedPriority(topic) ==
    LET base == IF HighGap(topic) THEN 3 ELSE 2
    IN  IF InFocus(topic) THEN (IF base = 3 THEN 3 ELSE base + 1) ELSE base
IsTop(topic) == ClaimedPriority(topic) = 3
IsRest(topic) == ClaimedPriority(topic) < 3
\* the topics in descending priority, ties in input order
ClaimedOrder == SelectSeq(call.args.topics, IsTop) \o SelectSeq(call.args.topics, IsRest)
IsStudy(task) == task.task_type = "study"
IsTopicTask(task) == task.task_type \in {"study", "practice"}
StudyTasks == SelectSeq(call.result.tasks, IsStudy)
TopicTasks == SelectSeq(call.result.tasks, IsTopicTask)
ClaimedPerDay ==
    LET q == Len(call.args.topics) \div (call.args.end_date - call.args.start_date + 1)
    IN  IF q > 1 THEN q ELSE 1

Chatted == call.fn = "chat_with_tutor" /\ call.done
\* the models in the order the handler lists them
Candidates ==
    (IF call.env.gemini_key THEN gemini_models_to_try(call.env.gemini_model) ELSE <<>>)
        \o FREE_MODELS
\* the model answers 200 with a reply that is not empty
Conforms(model) ==
    IF model \in FreeNames THEN call.env.free[model] = "text"
    ELSE call.env.gemini[model] = "text"
FirstConforming ==
    IF \E k \in DOMAIN Candidates : Conforms(Candidates[k])
    THEN CHOOSE k \in DOMAIN Candidates :
             /\ Conforms(Candidates[k])
             /\ \A j \in 1 .. (k - 1) : ~Conforms(Candidates[j])
    ELSE 0

\* C28: the models are asked in the listed order up to and including the
\* first one that conforms and no further; the reply is that model's text
\* and model_used its name; when none conforms all were asked and the local
\* reply is returned with model_used = "local_fallback"
C28_StopsAtFirstConforming ==
    Chatted =>
        IF FirstConforming = 0
        THEN /\ call.result.called = Candidates
             /\ call.result.response = LocalReply
             /\ call.result.model_used = "local_fallback"
        ELSE /\ call.result.called = SubSeq(Candidates, 1, FirstConforming)
             /\ call.result.response = ReplyOf(Candidates[FirstConforming])
             /\ call.result.model_used = Candidates[FirstConforming]

(***************************************************************************)
(* Properties of interleaved update_task requests (SpecRace).              *)
(***************************************************************************)
RaceOver == sessions # <<>> /\ \A s \in RaceSessions : sessions[s].pc = "done"
Mismatch == \E p \in PlanIds : plans[p].completed_tasks # Cardinality(CompletedOf(p))
\* both requests were served, on one task, and both selects preceded both commits
SameTaskRace ==
    /\ RaceOver
    /\ \A s \in RaceSessions : sessions[s].http = 200 /\ sessions[s].reads_after = 0
    /\ sessions[1].task_id = sessions[2].task_id
FirstCommitter == CHOOSE s \in RaceSessions : sessions[s].commits_after = 0
SecondCommitter == CHOOSE s \in RaceSessions : s # FirstCommitter
RacedStatus == sessions[1].seen.tasks[sessions[1].task_id].status
Requested(s) == sessions[s].update_data.status

\* C22 as stated, on its example: two requests that both set one pending
\* task to "completed", both reading before either commits, end with
\* completed_tasks different from the number of completed tasks
C22_BothCompletedMismatch ==
    (/\ SameTaskRace
     /\ RacedStatus = "pending"
     /\ \A s \in RaceSessions : Requested(s) = Some("completed"))
        => Mismatch

\* C22: two requests on one task that both read before either commits end
\* with completed_tasks different from the number of completed tasks exactly
\* when the task was not completed, the first to commit asked for
\* "completed" and the second for another status that is not the one read
C22_RaceOnOneTask ==
    SameTaskRace =>
        (Mismatch <=>
            /\ RacedStatus # "completed"
            /\ Requested(FirstCommitter) = Some("completed")
            /\ Truthy(Requested(SecondCommitter))
            /\ Get(Requested(SecondCommitter)) \notin {"completed", RacedStatus})

\* C22 witness: a pending task, the first to commit set it to "completed",
\* the second to "in_progress"; the counter counts a task that is not completed
C22_Witness ==
    /\ SameTaskRace
    /\ RacedStatus = "pending"
    /\ Requested(FirstCommitter) = Some("completed")
    /\ Requested(SecondCommitter) = Some("in_progress")
    /\ tasks[sessions[1].task_id].status = "in_progress"
    /\ \E p \in PlanIds : plans[p].completed_tasks = Cardinality(CompletedOf(p)) + 1

\* C30: two interleaved requests on two different tasks of one plan leave
\* completed_tasks equal to the number of the plan's completed tasks
C30_NoLostUpdate ==
    (/\ RaceOver
     /\ \A s \in RaceSessions : sessions[s].http = 200
     /\ sessions[1].task_id # sessions[2].task_id)
        => ~Mismatch

====
